---------------------------- MODULE Spec2Model ----------------------------
(***************************************************************************)
(* A model of the mock-up designer (src/mockup-feature): the App           *)
(* component's state and handlers (App.jsx), the depth provider            *)
(* (utils/depthEstimation.js), the renderer and the mask builders          *)
(* (utils/pixiRenderer.js).                                                *)
(*                                                                         *)
(* The specifications share the variables:                                 *)
(*   SpecApp    the App component: uploads, the mockup-processing          *)
(*              pipeline, the drag/resize handlers and the render effects, *)
(*              over few inputs;                                           *)
(*   SpecPlace  the same handlers over more inputs, the render scheduling  *)
(*              left aside;                                                *)
(*   SpecDepth  one call of getDepthMap and the code that consumes it;     *)
(*   SpecBatch  calls of MockupRenderer.generateResults, one at a time;    *)
(*   SpecRender, SpecShared  the interactive renders on a renderer, alone  *)
(*              and with generateResults;                                  *)
(*   SpecRenderer, SpecWait  the renderer from its construction to its     *)
(*              destruction, and its waits under the runtime's scheduling; *)
(*   SpecPointer  the design upload and the pointer handlers, about the    *)
(*              resize handle;                                             *)
(*   SpecMasks  the mask builders on one pixel;                            *)
(*   SpecNorm   the normalisation of processDepthMap on a small image;     *)
(*   SpecShader the fragment shader of FabricWrapFilter on one fragment;   *)
(*   SpecCanvas the Canvas 2D composites, renderFallbackCanvas with the    *)
(*              pointer handlers and renderWithCanvas2D;                   *)
(*   SpecProcessing  the mockup-processing pipeline under the runtime's    *)
(*              scheduling of its callbacks and timers.                    *)
(* Each specification leaves the variables of the others at their initial  *)
(* values.                                                                 *)
(*                                                                         *)
(* Coordinates are CSS pixels, as integers.  container.offsetWidth and     *)
(* container.offsetHeight are taken to be the width and height that        *)
(* containerDimensions gives the container's style.                        *)
(***************************************************************************)
EXTENDS Integers, Sequences, FiniteSets

Min(a, b) == IF a < b THEN a ELSE b

Max(a, b) == IF a > b THEN a ELSE b

\* Math.round of the positive rational n / d (halves round up).
Round(n, d) == (2 * n + d) \div (2 * d)

(***************************************************************************)
(* Program constants (App.jsx).                                            *)
(***************************************************************************)
MaxWidth == 800

MaxHeight == 600

DefaultOrigin == 50

DefaultSize == 200

HandleSize == 20

MinSize == 50

\* The resize handle (lines 715-718): 24 wide and high, set 12 beyond the
\* right and bottom edges of the design indicator.
HandleReach == 12

(***************************************************************************)
(* Bounds of the model.                                                    *)
(***************************************************************************)
\* Renders counted within one display refresh before the counter saturates
\* the guards.
MaxRenders == 3

(***************************************************************************)
(* Inputs.                                                                 *)
(***************************************************************************)
NoImage == [width |-> 0, height |-> 0]

\* mockupRenderer is null; otherwise it records the mockup bitmap the
\* renderer was initialized with.
NoRenderer == [mockup |-> NoImage]

\* Natural sizes of the mockup images a user uploads.
MockupDims ==
    { [width |-> 1600, height |-> 1200],
      [width |-> 250, height |-> 1500] }

\* Pointer positions relative to the container's top-left corner.
Pointers ==
    { [x |-> -350, y |-> -350], [x |-> 100, y |-> 100],
      [x |-> 250, y |-> 250], [x |-> 400, y |-> 400],
      [x |-> 850, y |-> 850] }

\* The inputs of the specification that follows the render scheduling.
FewDims ==
    { [width |-> 1600, height |-> 1200], [width |-> 250, height |-> 1500] }

FewPointers == { [x |-> 100, y |-> 100], [x |-> 250, y |-> 250] }

\* The inputs of the specification of the pointer handling: inside the
\* default placement, in its handle area, on the resize handle outside the
\* placement, and away from both.
PointerMockup == [width |-> 1600, height |-> 1200]

HandlePointers ==
    { [x |-> 100, y |-> 100], [x |-> 235, y |-> 235],
      [x |-> 255, y |-> 255], [x |-> 400, y |-> 400] }

MovePointers == { [x |-> 50, y |-> 50], [x |-> 400, y |-> 400] }

VARIABLES
    \* App.jsx, core state
    mockupImage, designImage, designPosition, designSize,
    \* App.jsx, interaction state
    isDragging, isResizing, dragOffset,
    \* App.jsx, processing state
    isProcessing, isInitialized, mockupRenderer,
    \* the upload in flight: the position of handleMockupChange /
    \* initializeMockupProcessing and the file it works on
    procPc, procFile,
    \* the design file whose <img> is loading
    designLoading,
    \* render scheduling: animationFrameRef holds a live request, the 100 ms
    \* timeout of the resize effect is armed, and the number of times
    \* updateMockupRender ran since the last display refresh
    rafPending, timerPending, rendersInFrame,
    \* whether the specification follows the render scheduling (SpecApp) or
    \* leaves it aside (SpecPlace); fixed by the initial state
    tracking,
    \* the 1000 ms timeout of handleGenerate is armed
    generateTimer,
    \* the renderers on the WebGL canvas besides mockupRenderer: one has
    \* been made and is initializing; one (or more) whose initialization
    \* failed has been left there
    pendingRenderer, leakedRenderer,
    \* history: the handler that ran last, whether the renderer of the
    \* current mockup failed to initialize, and the path of the last render
    \* since the renderer stage of the last upload ("none": no render yet)
    lastOp, webglFailed, lastRenderPath,
    \* depthEstimation.js: the position of the getDepthMap call and of the
    \* code that awaits it (App.jsx lines 104-116), the file it was given,
    \* the error the provider path ended with, and the value the promise
    \* resolved to
    depthPc, imageFile, falError, depthResult,
    \* App.jsx line 105-106: the bindings depthMap and method, and the state
    \* depthMapMethod
    depthMap, method, depthMapMethod,
    \* App.jsx line 155: the error the catch received ("none": no error)
    processingError,
    \* pixiRenderer.js, MockupRenderer: the position of generateResults, its
    \* argument, the loop index i (from 1), this.results,
    \* this.baseSprite.filters, the local originalFilters, the design
    \* texture held by this.fabricFilter (0: the default texture), the frame
    \* captureFrame returned to a pending await
    batchPc, designFiles, batchIndex, results, spriteFilters,
    originalFilters, filterDesign, capturedFrame,
    \* history: for each design of the call handled so far, "ok" or "failed"
    designOutcome,
    \* the interactive renders started on the WebGL path, in the order of
    \* their start: the position of each
    requests,
    \* pixiRenderer.js, MockupRenderer: which of this.app, this.baseSprite
    \* and this.fabricFilter are set, whether the sprite is on the stage and
    \* the length of this.designTextures; the position of initialize; the
    \* number of destroy calls made
    rendererObject, initPc, destroyCalls,
    \* pixiRenderer.js, the mask builders: the pixel read from the mockup
    \* (data[i .. i + 3]), the red channel and the alpha written for it to
    \* shadowData and to highlightData, and the builder that wrote them
    pixel, shadowData, highlightData, maskPc,
    \* depthEstimation.js, processDepthMap: the image data read at line 165
    \* as it was read and as it is now (a sequence of pixels), the position
    \* of the normalization, and the number of divisions it made
    depthInput, depthData, normPc, divisions,
    \* pixiRenderer.js, the fragment shader of FabricWrapFilter: what one
    \* fragment is given (its coordinate, the texels of the base, of the
    \* depth map and of the masks there, the design texture and the
    \* uniforms), the composite it wrote, and its position
    fragment, fragColor, shaderPc,
    \* App.jsx, renderFallbackCanvas: the runs started, in the order of their
    \* start, each with the placement its closure holds and its position;
    \* what has been drawn on the overlay canvas since it was last cleared;
    \* globalCompositeOperation and globalAlpha of its context
    fallbackRenders, overlayDraws, overlayContext,
    \* pixiRenderer.js, renderWithCanvas2D: what is drawn on its canvas
    \* since the last clear, and the state of its context, when it returns
    offscreen

maskVars == << pixel, shadowData, highlightData, maskPc >>

\* The variables of the functions that work on pixels.
normVars == << depthInput, depthData, normPc, divisions >>

shaderVars == << fragment, fragColor, shaderPc >>

canvasVars == << fallbackRenders, overlayDraws, overlayContext, offscreen >>

pureVars == << maskVars, normVars, shaderVars, canvasVars >>

surfaceVars == << pendingRenderer, leakedRenderer >>

appVars ==
    << mockupImage, designImage, designPosition, designSize, isDragging,
       isResizing, dragOffset, isProcessing, isInitialized, mockupRenderer,
       procPc, procFile, designLoading, rafPending, timerPending,
       rendersInFrame, tracking, generateTimer, pendingRenderer,
       leakedRenderer, lastOp, webglFailed, lastRenderPath, pureVars >>

depthVars ==
    << depthPc, imageFile, falError, depthResult, depthMap, method,
       depthMapMethod, processingError >>

batchVars ==
    << batchPc, designFiles, batchIndex, results, spriteFilters,
       originalFilters, filterDesign, capturedFrame, designOutcome >>

objectVars == << rendererObject, initPc, destroyCalls >>

renderVars == << requests, objectVars >>

vars == << appVars, depthVars, batchVars, renderVars >>

(***************************************************************************)
(* App.jsx: containerDimensions.                                           *)
(***************************************************************************)
containerDimensions(img) ==
    IF img = NoImage
    THEN [width |-> MaxWidth, height |-> MaxHeight]
    ELSE LET containerWidth == Min(MaxWidth, img.width)
             \* containerHeight = containerWidth / aspectRatio
             \*                 = containerWidth * img.height / img.width
         IN IF containerWidth * img.height > MaxHeight * img.width
            THEN [width |-> Round(MaxHeight * img.width, img.height),
                  height |-> MaxHeight]
            ELSE [width |-> containerWidth,
                  height |-> Round(containerWidth * img.height, img.width)]

\* The container the handlers measure: the style of the design-container.
Container == containerDimensions(mockupImage)

\* The design-container is rendered.
ContainerShown == mockupImage # NoImage /\ isInitialized

(***************************************************************************)
(* App.jsx: updateMockupRender and the three effects that call it.         *)
(***************************************************************************)
\* updateMockupRender passes its guard (line 341), in the state after the
\* commit.
CanRender == isInitialized' /\ designImage' /\ mockupImage' # NoImage

\* Lines 379-408: the path updateMockupRender takes with this renderer.
RenderPath(renderer) == IF renderer # NoRenderer THEN "gpu" ELSE "fallback"

\* The effects that run after a commit that changed mockupRenderer,
\* isInitialized, designImage, mockupImage, designPosition or designSize
\* (updateMockupRender is rebuilt): the animation-frame effect cancels the
\* pending request and asks for a new one, the "initial render" effect calls
\* updateMockupRender at once, the resize effect re-arms its timeout.
\* prevPath is the path recorded when no render runs.
RunEffectsFrom(prevPath) ==
    IF tracking
    THEN /\ rafPending' = TRUE
         /\ IF CanRender
            THEN /\ rendersInFrame' = rendersInFrame + 1
                 /\ lastRenderPath' = RenderPath(mockupRenderer')
            ELSE /\ UNCHANGED rendersInFrame
                 /\ lastRenderPath' = prevPath
         /\ timerPending' = (mockupImage' # NoImage /\ isInitialized')
    ELSE /\ UNCHANGED << rafPending, timerPending, rendersInFrame >>
         /\ lastRenderPath' = prevPath

RunEffects == RunEffectsFrom(lastRenderPath)

\* Guard of every action that may run a render: the counter has room.
RenderRoom == rendersInFrame < MaxRenders

\* The display refreshes: the animation-frame callback runs if requested.
Frame ==
    /\ tracking
    /\ rafPending \/ rendersInFrame > 0
    /\ rafPending' = FALSE
    /\ IF rafPending /\ isInitialized /\ designImage /\ mockupImage # NoImage
       THEN /\ rendersInFrame' = 1
            /\ lastRenderPath' = RenderPath(mockupRenderer)
       ELSE /\ rendersInFrame' = 0
            /\ UNCHANGED lastRenderPath
    /\ UNCHANGED << pureVars, tracking, generateTimer, surfaceVars, depthVars,
                    batchVars, renderVars >>
    /\ lastOp' = "other"
    /\ UNCHANGED << mockupImage, designImage, designPosition, designSize,
                    isDragging, isResizing, dragOffset, isProcessing,
                    isInitialized, mockupRenderer, procPc, procFile,
                    designLoading, timerPending, webglFailed >>

\* The 100 ms timeout of the resize effect fires.
ResizeTimer ==
    /\ tracking
    /\ timerPending
    /\ RenderRoom
    /\ timerPending' = FALSE
    /\ IF designImage /\ isInitialized
       THEN /\ rendersInFrame' = rendersInFrame + 1
            /\ lastRenderPath' = RenderPath(mockupRenderer)
       ELSE UNCHANGED << rendersInFrame, lastRenderPath >>
    /\ UNCHANGED << pureVars, tracking, generateTimer, surfaceVars, depthVars,
                    batchVars, renderVars >>
    /\ lastOp' = "other"
    /\ UNCHANGED << mockupImage, designImage, designPosition, designSize,
                    isDragging, isResizing, dragOffset, isProcessing,
                    isInitialized, mockupRenderer, procPc, procFile,
                    designLoading, rafPending, webglFailed >>

(***************************************************************************)
(* App.jsx: handleMockupChange and initializeMockupProcessing.             *)
(***************************************************************************)
\* Line 587: the mockup input is disabled while isProcessing.
MockupInputAlwaysEnabled == TRUE

MockupInputEnabled == ~isProcessing

\* Lines 70-92: a file is chosen in the mockup input.
MockupChange(file) ==
    /\ MockupInputEnabled
    /\ isProcessing' = TRUE
    /\ procPc' = "loading"
    /\ procFile' = file
    /\ UNCHANGED << pureVars, tracking, generateTimer, surfaceVars, depthVars,
                    batchVars, renderVars >>
    /\ lastOp' = "other"
    /\ UNCHANGED << mockupImage, designImage, designPosition, designSize,
                    isDragging, isResizing, dragOffset, isInitialized,
                    mockupRenderer, designLoading, rafPending, timerPending,
                    rendersInFrame, webglFailed, lastRenderPath >>

\* img.onload: the mockup image is set and processing starts.
MockupOnload ==
    /\ procPc = "loading"
    /\ RenderRoom
    /\ mockupImage' = procFile
    /\ procPc' = "depth"
    /\ webglFailed' = FALSE
    /\ UNCHANGED << pureVars, tracking, generateTimer, surfaceVars, depthVars,
                    batchVars, renderVars >>
    /\ lastOp' = "mockupLoad"
    /\ UNCHANGED << designImage, designPosition, designSize, isDragging,
                    isResizing, dragOffset, isProcessing, isInitialized,
                    mockupRenderer, procFile, designLoading >>
    /\ RunEffects

\* img.onerror.
MockupOnerror ==
    /\ procPc = "loading"
    /\ isProcessing' = FALSE
    /\ procPc' = "idle"
    /\ procFile' = NoImage
    /\ UNCHANGED << pureVars, tracking, generateTimer, surfaceVars, depthVars,
                    batchVars, renderVars >>
    /\ lastOp' = "other"
    /\ UNCHANGED << mockupImage, designImage, designPosition, designSize,
                    isDragging, isResizing, dragOffset, isInitialized,
                    mockupRenderer, designLoading, rafPending, timerPending,
                    rendersInFrame, webglFailed, lastRenderPath >>

\* The catch of initializeMockupProcessing (lines 155-159).
ProcessingFailed ==
    /\ isProcessing' = FALSE
    /\ procPc' = "idle"
    /\ procFile' = NoImage
    /\ UNCHANGED << mockupImage, designImage, designPosition, designSize,
                    isDragging, isResizing, dragOffset, isInitialized,
                    mockupRenderer, designLoading, rafPending, timerPending,
                    rendersInFrame, webglFailed, lastRenderPath >>

\* Lines 104-116: the depth map is fetched, previewed and processed.  The
\* lines complete when getDepthMap yields {depthMap, method} and throw
\* otherwise (SpecDepth models which of the two getDepthMap yields); both
\* outcomes are kept here, so that the stages that follow are covered.
DepthStage(outcome) ==
    /\ procPc = "depth"
    /\ UNCHANGED << pureVars, tracking, generateTimer, surfaceVars, depthVars,
                    batchVars, renderVars >>
    /\ lastOp' = "other"
    /\ IF outcome = "ok"
       THEN /\ procPc' = "masks"
            /\ UNCHANGED << mockupImage, designImage, designPosition,
                            designSize, isDragging, isResizing, dragOffset,
                            isProcessing, isInitialized, mockupRenderer,
                            procFile, designLoading, rafPending, timerPending,
                            rendersInFrame, webglFailed, lastRenderPath >>
       ELSE ProcessingFailed

\* Lines 118-130: createImageBitmap(file) and buildLightingMasksSimple.
MasksStage(outcome) ==
    /\ procPc = "masks"
    /\ UNCHANGED << pureVars, tracking, generateTimer, surfaceVars, depthVars,
                    batchVars, renderVars >>
    /\ lastOp' = "other"
    /\ IF outcome = "ok"
       THEN /\ procPc' = "webgl"
            /\ UNCHANGED << mockupImage, designImage, designPosition,
                            designSize, isDragging, isResizing, dragOffset,
                            isProcessing, isInitialized, mockupRenderer,
                            procFile, designLoading, rafPending, timerPending,
                            rendersInFrame, webglFailed, lastRenderPath >>
       ELSE ProcessingFailed

\* Lines 136-153: the state that follows the renderer's initialization
\* ("ok") or the catch of webglError ("fails"); either way the session is
\* initialized and the 500 ms timeout is armed.
RendererOutcome(outcome) ==
    /\ RenderRoom
    /\ IF outcome = "ok"
       THEN /\ mockupRenderer' = [mockup |-> procFile]
            /\ webglFailed' = FALSE
       ELSE /\ UNCHANGED mockupRenderer
            /\ webglFailed' = TRUE
    /\ isInitialized' = TRUE
    /\ procPc' = "settle"
    /\ UNCHANGED << pureVars, tracking, generateTimer, depthVars, batchVars,
                    renderVars >>
    /\ lastOp' = "other"
    /\ UNCHANGED << mockupImage, designImage, designPosition, designSize,
                    isDragging, isResizing, dragOffset, isProcessing,
                    procFile, designLoading >>
    \* the effects run when the commit changed mockupRenderer or
    \* isInitialized; lastRenderPath starts anew for this upload
    /\ IF outcome = "ok" \/ ~isInitialized
       THEN RunEffectsFrom("none")
       ELSE /\ UNCHANGED << rafPending, timerPending, rendersInFrame >>
            /\ lastRenderPath' = "none"

\* Lines 132-135: new MockupRenderer(webglCanvasRef.current) makes a PIXI
\* application on the canvas and initialize is awaited, or the constructor
\* throws and the catch of webglError runs.
RendererCreate(outcome) ==
    /\ procPc = "webgl"
    /\ IF outcome = "ok"
       THEN /\ procPc' = "initialize"
            /\ pendingRenderer' = tracking
            /\ lastOp' = "other"
            /\ UNCHANGED << pureVars, tracking, generateTimer, leakedRenderer,
                            depthVars, batchVars, renderVars >>
            /\ UNCHANGED << mockupImage, designImage, designPosition,
                            designSize, isDragging, isResizing, dragOffset,
                            isProcessing, isInitialized, mockupRenderer,
                            procFile, designLoading, rafPending, timerPending,
                            rendersInFrame, webglFailed, lastRenderPath >>
       ELSE RendererOutcome("fails") /\ UNCHANGED surfaceVars

\* Lines 135-149 and 551-561: initialize resolves, the renderer becomes the
\* session's and the cleanup of the effect destroys the one it replaces;
\* or initialize rejects, the catch of webglError runs and the renderer
\* that was made stays on the canvas.
RendererStage(outcome) ==
    /\ procPc = "initialize"
    /\ RendererOutcome(outcome)
    /\ pendingRenderer' = FALSE
    /\ leakedRenderer' =
           (leakedRenderer \/ (pendingRenderer /\ outcome = "fails"))

\* The 500 ms timeout of line 151 fires.
SettleTimer ==
    /\ procPc = "settle"
    /\ isProcessing' = FALSE
    /\ procPc' = "idle"
    /\ procFile' = NoImage
    /\ UNCHANGED << pureVars, tracking, generateTimer, surfaceVars, depthVars,
                    batchVars, renderVars >>
    /\ lastOp' = "other"
    /\ UNCHANGED << mockupImage, designImage, designPosition, designSize,
                    isDragging, isResizing, dragOffset, isInitialized,
                    mockupRenderer, designLoading, rafPending, timerPending,
                    rendersInFrame, webglFailed, lastRenderPath >>

\* Lines 526-549 and 739-743: the Generate button (shown once a mockup and
\* a design are there and the session is initialized, disabled while
\* isProcessing) is clicked with a renderer; the frame is captured and the
\* 1000 ms timeout armed, or the capture throws.
handleGenerate(outcome) ==
    /\ mockupImage # NoImage /\ designImage /\ isInitialized
    /\ ~isProcessing
    /\ mockupRenderer # NoRenderer
    /\ isProcessing' = (outcome = "ok")
    /\ generateTimer' = (outcome = "ok")
    /\ lastOp' = "other"
    /\ UNCHANGED << pureVars, tracking, surfaceVars, depthVars, batchVars,
                    renderVars >>
    /\ UNCHANGED << mockupImage, designImage, designPosition, designSize,
                    isDragging, isResizing, dragOffset, isInitialized,
                    mockupRenderer, procPc, procFile, designLoading,
                    rafPending, timerPending, rendersInFrame, webglFailed,
                    lastRenderPath >>

\* The 1000 ms timeout of line 541 fires.
GenerateTimer ==
    /\ generateTimer
    /\ generateTimer' = FALSE
    /\ isProcessing' = FALSE
    /\ lastOp' = "other"
    /\ UNCHANGED << pureVars, tracking, surfaceVars, depthVars, batchVars,
                    renderVars >>
    /\ UNCHANGED << mockupImage, designImage, designPosition, designSize,
                    isDragging, isResizing, dragOffset, isInitialized,
                    mockupRenderer, procPc, procFile, designLoading,
                    rafPending, timerPending, rendersInFrame, webglFailed,
                    lastRenderPath >>

(***************************************************************************)
(* App.jsx: handleDesignChange.                                            *)
(***************************************************************************)
\* A file is chosen in the design input (enabled once initialized).
DesignChange ==
    /\ isInitialized
    /\ designLoading' = TRUE
    /\ UNCHANGED << pureVars, tracking, generateTimer, surfaceVars, depthVars,
                    batchVars, renderVars >>
    /\ lastOp' = "other"
    /\ UNCHANGED << mockupImage, designImage, designPosition, designSize,
                    isDragging, isResizing, dragOffset, isProcessing,
                    isInitialized, mockupRenderer, procPc, procFile,
                    rafPending, timerPending, rendersInFrame, webglFailed,
                    lastRenderPath >>

\* img.onload without lines 174-175: the placement is kept.
DesignOnloadKeepPlacement ==
    /\ designLoading
    /\ RenderRoom
    /\ designLoading' = FALSE
    /\ designImage' = TRUE
    /\ UNCHANGED << designPosition, designSize >>
    /\ UNCHANGED << pureVars, tracking, generateTimer, surfaceVars, depthVars,
                    batchVars, renderVars >>
    /\ lastOp' = "designLoad"
    /\ UNCHANGED << mockupImage, isDragging, isResizing, dragOffset,
                    isProcessing, isInitialized, mockupRenderer, procPc,
                    procFile, webglFailed >>
    /\ RunEffects

\* img.onload: the design is set and the placement is reset.  The three
\* setters of lines 172-175 commit together.
DesignOnload ==
    /\ designLoading
    /\ RenderRoom
    /\ designLoading' = FALSE
    /\ designImage' = TRUE
    /\ designPosition' = [x |-> DefaultOrigin, y |-> DefaultOrigin]
    /\ designSize' = [width |-> DefaultSize, height |-> DefaultSize]
    /\ UNCHANGED << pureVars, tracking, generateTimer, surfaceVars, depthVars,
                    batchVars, renderVars >>
    /\ lastOp' = "designLoad"
    /\ UNCHANGED << mockupImage, isDragging, isResizing, dragOffset,
                    isProcessing, isInitialized, mockupRenderer, procPc,
                    procFile, webglFailed >>
    /\ RunEffects

\* img.onerror.
DesignOnerror ==
    /\ designLoading
    /\ designLoading' = FALSE
    /\ UNCHANGED << pureVars, tracking, generateTimer, surfaceVars, depthVars,
                    batchVars, renderVars >>
    /\ lastOp' = "other"
    /\ UNCHANGED << mockupImage, designImage, designPosition, designSize,
                    isDragging, isResizing, dragOffset, isProcessing,
                    isInitialized, mockupRenderer, procPc, procFile,
                    rafPending, timerPending, rendersInFrame, webglFailed,
                    lastRenderPath >>

(***************************************************************************)
(* App.jsx: handleMouseDown, handleMouseMove, handleMouseUp.               *)
(***************************************************************************)
\* p is over the design-container (children are clipped: overflow hidden).
InContainer(p) ==
    /\ 0 <= p.x /\ p.x <= Container.width
    /\ 0 <= p.y /\ p.y <= Container.height

\* Lines 469-476: p is in the resize handle area.
InHandle(p) ==
    LET resizeX == designPosition.x + designSize.width - HandleSize
        resizeY == designPosition.y + designSize.height - HandleSize
    IN /\ p.x >= resizeX /\ p.x <= resizeX + HandleSize
       /\ p.y >= resizeY /\ p.y <= resizeY + HandleSize

\* Lines 479-480: p is in the placement rectangle.
InDesign(p) ==
    /\ p.x >= designPosition.x /\ p.x <= designPosition.x + designSize.width
    /\ p.y >= designPosition.y /\ p.y <= designPosition.y + designSize.height

\* Lines 711-732: p is over the resize-handle element, which is centred on
\* the bottom-right corner of the design indicator (the few pixels by which
\* the borders of the container and of the indicator shift it are left
\* out).
OnResizeHandle(p) ==
    LET cornerX == designPosition.x + designSize.width
        cornerY == designPosition.y + designSize.height
    IN /\ p.x >= cornerX - HandleReach /\ p.x <= cornerX + HandleReach
       /\ p.y >= cornerY - HandleReach /\ p.y <= cornerY + HandleReach

\* Lines 727-731: mousedown on the resize-handle element.  The handler
\* stops the propagation, so that handleMouseDown does not run, and does
\* not read the pointer's position.
resizeHandleMouseDown(p) ==
    /\ ContainerShown /\ designImage
    /\ InContainer(p)
    /\ OnResizeHandle(p)
    /\ isResizing' = TRUE
    /\ UNCHANGED << pureVars, tracking, generateTimer, surfaceVars, depthVars,
                    batchVars, renderVars >>
    /\ lastOp' = "down"
    /\ UNCHANGED << mockupImage, designImage, designPosition, designSize,
                    isDragging, dragOffset, isProcessing, isInitialized,
                    mockupRenderer, procPc, procFile, designLoading,
                    rafPending, timerPending, rendersInFrame, webglFailed,
                    lastRenderPath >>

\* handleMouseDown with the rectangle test before the handle test.
handleMouseDownDragFirst(p) ==
    /\ ContainerShown /\ designImage
    /\ InContainer(p)
    /\ ~ OnResizeHandle(p)
    /\ IF InDesign(p)
       THEN /\ isDragging' = TRUE
            /\ dragOffset' = [x |-> p.x - designPosition.x,
                              y |-> p.y - designPosition.y]
            /\ UNCHANGED isResizing
       ELSE IF InHandle(p)
            THEN /\ isResizing' = TRUE
                 /\ UNCHANGED << isDragging, dragOffset >>
            ELSE UNCHANGED << isDragging, isResizing, dragOffset >>
    /\ UNCHANGED << pureVars, tracking, generateTimer, surfaceVars, depthVars,
                    batchVars, renderVars >>
    /\ lastOp' = "down"
    /\ UNCHANGED << mockupImage, designImage, designPosition, designSize,
                    isProcessing, isInitialized, mockupRenderer, procPc,
                    procFile, designLoading, rafPending, timerPending,
                    rendersInFrame, webglFailed, lastRenderPath >>

\* mousedown on the design indicator, which is rendered inside the
\* container once a design is loaded, elsewhere than on its resize handle.
handleMouseDown(p) ==
    /\ ContainerShown /\ designImage
    /\ InContainer(p)
    /\ ~ OnResizeHandle(p)
    /\ IF InHandle(p)
       THEN /\ isResizing' = TRUE
            /\ UNCHANGED << isDragging, dragOffset >>
       ELSE IF InDesign(p)
            THEN /\ isDragging' = TRUE
                 /\ dragOffset' = [x |-> p.x - designPosition.x,
                                   y |-> p.y - designPosition.y]
                 /\ UNCHANGED isResizing
            ELSE UNCHANGED << isDragging, isResizing, dragOffset >>
    /\ UNCHANGED << pureVars, tracking, generateTimer, surfaceVars, depthVars,
                    batchVars, renderVars >>
    /\ lastOp' = "down"
    /\ UNCHANGED << mockupImage, designImage, designPosition, designSize,
                    isProcessing, isInitialized, mockupRenderer, procPc,
                    procFile, designLoading, rafPending, timerPending,
                    rendersInFrame, webglFailed, lastRenderPath >>

\* Lines 502-503: the dragged origin on one axis.
DragAxis(p, offset, containerSize, size) ==
    Max(0, Min(p - offset, containerSize - size))

\* The resized extent without the constraint of lines 509-510.
ResizeAxisUnconstrained(p, origin, containerSize) ==
    Max(MinSize, p - origin)

\* Lines 507-510: the resized extent on one axis.
ResizeAxis(p, origin, containerSize) ==
    Min(Max(MinSize, p - origin), containerSize - origin)

\* mousemove on the design-container.
handleMouseMove(p) ==
    /\ ContainerShown
    /\ isDragging \/ isResizing
    /\ RenderRoom
    /\ UNCHANGED << pureVars, tracking, generateTimer, surfaceVars, depthVars,
                    batchVars, renderVars >>
    /\ IF isDragging
       THEN /\ designPosition' =
                   [x |-> DragAxis(p.x, dragOffset.x, Container.width,
                                   designSize.width),
                    y |-> DragAxis(p.y, dragOffset.y, Container.height,
                                   designSize.height)]
            /\ UNCHANGED designSize
            /\ lastOp' = "drag"
       ELSE /\ designSize' =
                   [width |-> ResizeAxis(p.x, designPosition.x,
                                         Container.width),
                    height |-> ResizeAxis(p.y, designPosition.y,
                                          Container.height)]
            /\ UNCHANGED designPosition
            /\ lastOp' = "resize"
    /\ UNCHANGED << mockupImage, designImage, isDragging, isResizing,
                    dragOffset, isProcessing, isInitialized, mockupRenderer,
                    procPc, procFile, designLoading, webglFailed >>
    /\ RunEffects

\* handleMouseUp without line 522: a resize is not ended.
handleMouseUpDragOnly ==
    /\ ContainerShown
    /\ isDragging' = FALSE
    /\ UNCHANGED << pureVars, tracking, generateTimer, surfaceVars, depthVars,
                    batchVars, renderVars >>
    /\ lastOp' = "up"
    /\ UNCHANGED << mockupImage, designImage, designPosition, designSize,
                    isResizing, dragOffset, isProcessing, isInitialized,
                    mockupRenderer, procPc, procFile, designLoading,
                    rafPending, timerPending, rendersInFrame, webglFailed,
                    lastRenderPath >>

\* mouseup on, or mouseleave from, the design-container.
handleMouseUp ==
    /\ ContainerShown
    /\ isDragging' = FALSE
    /\ isResizing' = FALSE
    /\ UNCHANGED << pureVars, tracking, generateTimer, surfaceVars, depthVars,
                    batchVars, renderVars >>
    /\ lastOp' = "up"
    /\ UNCHANGED << mockupImage, designImage, designPosition, designSize,
                    dragOffset, isProcessing, isInitialized, mockupRenderer,
                    procPc, procFile, designLoading, rafPending,
                    timerPending, rendersInFrame, webglFailed,
                    lastRenderPath >>

(***************************************************************************)
(* depthEstimation.js: getDepthMap, and App.jsx lines 104-116 and 155-159, *)
(* the code that awaits it.  Each await is one step; what the network, the *)
(* provider and the decoder answer is chosen at the step.                  *)
(***************************************************************************)

\* The files given to getDepthMap: raster images and an SVG image, all of
\* which an <img> element decodes (handleMockupChange, lines 80-86).
ImageFiles ==
    { [type |-> "image/png", width |-> 1600, height |-> 1200],
      [type |-> "image/jpeg", width |-> 250, height |-> 1500],
      [type |-> "image/svg+xml", width |-> 1600, height |-> 1200] }

NoFile == [type |-> "none", width |-> 0, height |-> 0]

\* createImageBitmap(file): a raster file that an <img> element decodes is
\* decoded; for an SVG file the promise rejects where the browser does not
\* decode vector images there or the image has no natural size (which is
\* why generateResults converts SVG designs first, pixiRenderer.js lines
\* 391-393), and resolves elsewhere.
BitmapOutcomes(file) ==
    IF file.type = "image/svg+xml" THEN {"ok", "rejects"} ELSE {"ok"}

\* JavaScript values of the call: undefined, and an ImageBitmap with the
\* path that produced it.
Undefined == [type |-> "undefined", width |-> 0, height |-> 0, path |-> "none"]

ImageBitmap(w, h, path) ==
    [type |-> "ImageBitmap", width |-> w, height |-> h, path |-> path]

\* The properties an ImageBitmap has.
BitmapProperties == {"width", "height", "close"}

\* value[name] of the destructuring at line 105: "defined" or "undefined".
PropertyOf(value, name) ==
    IF value.type = "ImageBitmap" /\ name \in BitmapProperties
    THEN "defined"
    ELSE "undefined"

DepthIdle ==
    /\ depthPc = "idle"
    /\ imageFile = NoFile
    /\ falError = "none"
    /\ depthResult = Undefined
    /\ depthMap = "unbound"
    /\ method = "unbound"
    /\ depthMapMethod = "null"
    /\ processingError = "none"

\* Line 104-105 and getDepthMap lines 6-10, getDepthMapFAL line 25: the
\* call, up to the await of fileToBase64.
getDepthMap(file) ==
    /\ depthPc = "idle"
    /\ depthPc' = "fileToBase64"
    /\ imageFile' = file
    /\ UNCHANGED << falError, depthResult, depthMap, method, depthMapMethod,
                    processingError, appVars, batchVars, renderVars >>

\* getDepthMap without the catch of lines 11-17: the provider's error is
\* the call's rejection.
FalFailedUncaught(error) ==
    /\ depthPc' = "rejected"
    /\ falError' = error
    /\ UNCHANGED << imageFile, depthResult, depthMap, method, depthMapMethod,
                    processingError, appVars, batchVars, renderVars >>

\* getDepthMap lines 11-17 and createFallbackDepthMap lines 72-77: the
\* provider's error is caught and logged, and the fallback awaits
\* createImageBitmap(imageFile).
FalFailed(error) ==
    /\ depthPc' = "fallbackLoad"
    /\ falError' = error
    /\ UNCHANGED << imageFile, depthResult, depthMap, method, depthMapMethod,
                    processingError, appVars, batchVars, renderVars >>

FalContinues(pc) ==
    /\ depthPc' = pc
    /\ UNCHANGED << imageFile, falError, depthResult, depthMap, method,
                    depthMapMethod, processingError, appVars, batchVars,
                    renderVars >>

\* fileToBase64 (lines 135-142) settles.
fileToBase64(outcome) ==
    /\ depthPc = "fileToBase64"
    /\ IF outcome = "load" THEN FalContinues("fetch") ELSE FalFailed("reader")

\* Lines 28-42: the POST settles.
FetchProvider(outcome) ==
    /\ depthPc = "fetch"
    /\ CASE outcome = "ok" -> FalContinues("json")
         [] outcome = "notOk" -> FalContinues("errorText")
         [] OTHER -> FalFailed("network")

\* Lines 40-41: the error text is read and the error thrown.
ErrorText ==
    /\ depthPc = "errorText"
    /\ FalFailed("status")

\* Lines 44-53: the payload is parsed and the URL looked up.
ResponseJson(outcome) ==
    /\ depthPc = "json"
    /\ CASE outcome = "url" -> FalContinues("fetchDepth")
         [] outcome = "noUrl" -> FalFailed("noUrl")
         [] OTHER -> FalFailed("invalidJson")

\* Lines 56-59: the download of the depth image settles.
FetchDepthImage(outcome) ==
    /\ depthPc = "fetchDepth"
    /\ CASE outcome = "ok" -> FalContinues("blob")
         [] outcome = "notOk" -> FalFailed("download")
         [] OTHER -> FalFailed("network")

\* Line 61.
DepthBlob(outcome) ==
    /\ depthPc = "blob"
    /\ IF outcome = "ok" THEN FalContinues("decode") ELSE FalFailed("download")

\* Lines 62-65 and line 10: the depth image is decoded and getDepthMap
\* returns the bitmap.
DepthBitmap(outcome) ==
    /\ depthPc = "decode"
    /\ IF outcome = "ok"
       THEN /\ depthPc' = "resolved"
            /\ depthResult' =
                   ImageBitmap(imageFile.width, imageFile.height, "FAL")
            /\ UNCHANGED << imageFile, falError, depthMap, method,
                            depthMapMethod, processingError, appVars,
                            batchVars, renderVars >>
       ELSE FalFailed("decode")

\* createFallbackDepthMap lines 77-129: createImageBitmap(imageFile)
\* settles; the canvas is drawn and createImageBitmap(canvas) awaited.
\* Nothing catches a rejection, so it is getDepthMap's.
FallbackLoad(outcome) ==
    /\ depthPc = "fallbackLoad"
    /\ outcome \in BitmapOutcomes(imageFile)
    /\ depthPc' = IF outcome = "ok" THEN "fallbackDraw" ELSE "rejected"
    /\ UNCHANGED << imageFile, falError, depthResult, depthMap, method,
                    depthMapMethod, processingError, appVars, batchVars,
                    renderVars >>

\* Line 129 and line 17: the canvas's bitmap is getDepthMap's value.
FallbackBitmap ==
    /\ depthPc = "fallbackDraw"
    /\ depthPc' = "resolved"
    /\ depthResult' =
           ImageBitmap(imageFile.width, imageFile.height, "fallback")
    /\ UNCHANGED << imageFile, falError, depthMap, method, depthMapMethod,
                    processingError, appVars, batchVars, renderVars >>

\* App.jsx lines 105-106: the value is destructured into depthMap and
\* method, and method is stored.
Destructure ==
    /\ depthPc = "resolved"
    /\ depthPc' = "preview"
    /\ depthMap' = PropertyOf(depthResult, "depthMap")
    /\ method' = PropertyOf(depthResult, "method")
    /\ depthMapMethod' = PropertyOf(depthResult, "method")
    /\ UNCHANGED << imageFile, falError, depthResult, processingError,
                    appVars, batchVars, renderVars >>

\* App.jsx lines 108-116: depthMap.width is read for the preview canvas; a
\* depthMap that is undefined makes the read throw a TypeError, which the
\* catch of line 155 receives.
Preview ==
    /\ depthPc = "preview"
    /\ IF depthMap = "undefined"
       THEN depthPc' = "caught" /\ processingError' = "TypeError"
       ELSE depthPc' = "processDepthMap" /\ UNCHANGED processingError
    /\ UNCHANGED << imageFile, falError, depthResult, depthMap, method,
                    depthMapMethod, appVars, batchVars, renderVars >>

\* App.jsx lines 105 and 155-159: a rejection of getDepthMap is thrown by
\* the await and caught.
AwaitRejected ==
    /\ depthPc = "rejected"
    /\ depthPc' = "caught"
    /\ processingError' = "rejected"
    /\ UNCHANGED << imageFile, falError, depthResult, depthMap, method,
                    depthMapMethod, appVars, batchVars, renderVars >>

(***************************************************************************)
(* pixiRenderer.js: MockupRenderer.generateResults on a renderer that      *)
(* initialize() has set up.  Each await is one step; whether a decode, a   *)
(* render or a capture throws is chosen at the step.                       *)
(***************************************************************************)

\* The longest design list.
MaxDesigns == 3

DesignFileSet ==
    { [name |-> "a.png", type |-> "image/png"],
      [name |-> "b.svg", type |-> "image/svg+xml"] }

DesignLists ==
    UNION { [1..n -> DesignFileSet] : n \in 0..MaxDesigns }

\* What captureFrame (lines 489-502) returns: the stage with or without the
\* sprite's filter, and the design texture the filter holds.
captureFrame(filters, design) ==
    [kind |-> "capture", filtered |-> (filters = "fabricFilter"),
     design |-> design]

\* Line 442: the 1x1 transparent PNG.
Placeholder == [kind |-> "placeholder", filtered |-> FALSE, design |-> 0]

NoFrame == [kind |-> "none", filtered |-> FALSE, design |-> 0]

\* Lines 374-377.
OriginalResultShort(image) ==
    [name |-> [text |-> "Original", index |-> 0, file |-> "",
               failed |-> FALSE],
     image |-> image]

OriginalResult(image) ==
    [name |-> [text |-> "Original Mockup", index |-> 0, file |-> "",
               failed |-> FALSE],
     image |-> image]

\* The result named `Design ${i}: ${designFile.name}`, i counted from 0.
DesignResultFromZero(i, designFile, image) ==
    [name |-> [text |-> "Design", index |-> i - 1, file |-> designFile.name,
               failed |-> FALSE],
     image |-> image]

\* Lines 432-435: `Design ${i + 1}: ${designFile.name}`, i counted from 0.
DesignResult(i, designFile, image) ==
    [name |-> [text |-> "Design", index |-> i, file |-> designFile.name,
               failed |-> FALSE],
     image |-> image]

\* Lines 440-443: `Design ${i + 1}: ${designFile.name} (Failed)`.
FailedResult(i, designFile) ==
    [name |-> [text |-> "Design", index |-> i, file |-> designFile.name,
               failed |-> TRUE],
     image |-> Placeholder]

\* Line 383: the loop's test, and lines 447-448.
LoopPc(i) == IF i <= Len(designFiles) THEN "decode" ELSE "returned"

\* The renderer after initialize() (lines 252-289).
BatchIdle ==
    /\ batchPc = "idle"
    /\ designFiles = << >>
    /\ batchIndex = 0
    /\ results = << >>
    /\ spriteFilters = "fabricFilter"
    /\ originalFilters = "unbound"
    /\ filterDesign = 0
    /\ capturedFrame = NoFrame
    /\ designOutcome = << >>

\* Whether this.baseSprite, this.fabricFilter and this.app are set; a
\* property read or a call on one that is not throws a TypeError.
HasSprite == rendererObject.baseSprite

HasFilter == rendererObject.fabricFilter

HasApp == rendererObject.app

\* generateResults without line 361: this.results is left as the earlier
\* call filled it.
generateResultsKeepResults(files, outcome) ==
    /\ batchPc \in {"idle", "returned", "rejected"}
    /\ designFiles' = files
    /\ designOutcome' = << >>
    /\ batchIndex' = 0
    /\ IF HasSprite
       THEN /\ originalFilters' = spriteFilters
            /\ spriteFilters' = "null"
       ELSE UNCHANGED << originalFilters, spriteFilters >>
    /\ IF outcome = "ok" /\ HasSprite /\ HasApp
       THEN /\ batchPc' = "original"
            /\ capturedFrame' = captureFrame("null", filterDesign)
       ELSE /\ batchPc' = "rejected"
            /\ capturedFrame' = NoFrame
    /\ UNCHANGED << results, filterDesign, appVars, depthVars, renderVars >>

\* generateResults without line 368: the Original is captured with the
\* filters attached.
generateResultsFiltered(files, outcome) ==
    /\ batchPc \in {"idle", "returned", "rejected"}
    /\ designFiles' = files
    /\ results' = << >>
    /\ designOutcome' = << >>
    /\ batchIndex' = 0
    /\ IF HasSprite
       THEN originalFilters' = spriteFilters
       ELSE UNCHANGED originalFilters
    /\ IF outcome = "ok" /\ HasSprite /\ HasApp
       THEN /\ batchPc' = "original"
            /\ capturedFrame' = captureFrame(spriteFilters, filterDesign)
       ELSE /\ batchPc' = "rejected"
            /\ capturedFrame' = NoFrame
    /\ UNCHANGED << spriteFilters, filterDesign, appVars, depthVars,
                    renderVars >>

\* Lines 360-371: the call, up to the await of captureFrame.  A throw of
\* app.render or of the extraction is caught at line 450 and rethrown.
generateResults(files, outcome) ==
    /\ batchPc \in {"idle", "returned", "rejected"}
    /\ designFiles' = files
    /\ results' = << >>
    /\ designOutcome' = << >>
    /\ batchIndex' = 0
    /\ IF HasSprite
       THEN /\ originalFilters' = spriteFilters
            /\ spriteFilters' = "null"
       ELSE UNCHANGED << originalFilters, spriteFilters >>
    /\ IF outcome = "ok" /\ HasSprite /\ HasApp
       THEN /\ batchPc' = "original"
            /\ capturedFrame' = captureFrame("null", filterDesign)
       ELSE /\ batchPc' = "rejected"
            /\ capturedFrame' = NoFrame
    /\ UNCHANGED << filterDesign, appVars, depthVars, renderVars >>

\* Lines 371-397: the Original is pushed, the filters restored, and the
\* loop entered.
PushOriginal ==
    /\ batchPc = "original"
    /\ results' = Append(results, OriginalResult(capturedFrame))
    /\ IF HasSprite
       THEN /\ spriteFilters' = originalFilters
            /\ batchIndex' = 1
            /\ batchPc' = LoopPc(1)
       ELSE /\ batchPc' = "rejected"
            /\ UNCHANGED << spriteFilters, batchIndex >>
    /\ capturedFrame' = NoFrame
    /\ UNCHANGED << designFiles, originalFilters, filterDesign,
                    designOutcome, appVars, depthVars, renderVars >>

\* Lines 437-445 and 383: the catch of one design's error, and the next
\* round of the loop.
CatchDesignErrorRethrow ==
    /\ designOutcome' = Append(designOutcome, "failed")
    /\ batchPc' = "rejected"
    /\ UNCHANGED << results, batchIndex >>

CatchDesignError ==
    /\ results' =
           Append(results, FailedResult(batchIndex, designFiles[batchIndex]))
    /\ designOutcome' = Append(designOutcome, "failed")
    /\ batchIndex' = batchIndex + 1
    /\ batchPc' = LoopPc(batchIndex + 1)

\* Lines 389-411: convertSvgToBitmap or createImageBitmap settles; the
\* texture is made and its readiness awaited.
DecodeDesign(outcome) ==
    /\ batchPc = "decode"
    /\ IF outcome = "ok"
       THEN /\ batchPc' = "texture"
            /\ UNCHANGED << results, batchIndex, designOutcome >>
       ELSE CatchDesignError
    /\ UNCHANGED << designFiles, spriteFilters, originalFilters,
                    filterDesign, capturedFrame, appVars, depthVars,
                    renderVars >>

\* Lines 405-426: the texture is ready; it is set in the filter, a render
\* is forced and the 50 ms delay awaited.
TextureReady(outcome) ==
    /\ batchPc = "texture"
    /\ filterDesign' = IF HasFilter THEN batchIndex ELSE filterDesign
    /\ IF outcome = "ok" /\ HasFilter /\ HasApp
       THEN /\ batchPc' = "delay"
            /\ UNCHANGED << results, batchIndex, designOutcome >>
       ELSE CatchDesignError
    /\ UNCHANGED << designFiles, spriteFilters, originalFilters,
                    capturedFrame, appVars, depthVars, renderVars >>

\* Lines 426-435 and 383: the delay has passed; the frame is captured and
\* pushed.
DelayElapsed(outcome) ==
    /\ batchPc = "delay"
    /\ IF outcome = "ok" /\ HasApp
       THEN /\ results' =
                   Append(results,
                          DesignResult(batchIndex, designFiles[batchIndex],
                                       captureFrame(spriteFilters,
                                                    filterDesign)))
            /\ designOutcome' = Append(designOutcome, "ok")
            /\ batchIndex' = batchIndex + 1
            /\ batchPc' = LoopPc(batchIndex + 1)
       ELSE CatchDesignError
    /\ UNCHANGED << designFiles, spriteFilters, originalFilters,
                    filterDesign, capturedFrame, appVars, depthVars,
                    renderVars >>

(***************************************************************************)
(* pixiRenderer.js: the MockupRenderer object, from its constructor to     *)
(* destroy.                                                                *)
(***************************************************************************)

\* The most destroy calls followed.
MaxDestroyCalls == 2

\* After the constructor (lines 148-191).
Constructed ==
    [app |-> TRUE, baseSprite |-> FALSE, fabricFilter |-> FALSE,
     onStage |-> FALSE, designTextures |-> 0]

\* After initialize (lines 196-309).
Initialized ==
    [app |-> TRUE, baseSprite |-> TRUE, fabricFilter |-> TRUE,
     onStage |-> TRUE, designTextures |-> 0]

\* Lines 205-215: initialize makes the four textures and awaits their
\* readiness.
initialize ==
    /\ initPc = "none"
    /\ initPc' = "textures"
    /\ UNCHANGED << rendererObject, destroyCalls, requests, appVars,
                    depthVars, batchVars >>

\* Lines 215-308: the four textures are ready.  The sprite is made (224);
\* reading this.app.screen (227) throws when destroy has cleared this.app;
\* the filter is made (263) unless the shader does not compile; the filter
\* is applied and a test render made (289-293), which may throw; the sprite
\* is put on the stage (300).  Every throw is rethrown at line 307.
InitializeTexturesReady(outcome) ==
    /\ initPc = "textures"
    /\ rendererObject' =
           IF ~rendererObject.app
           THEN [rendererObject EXCEPT !.baseSprite = TRUE]
           ELSE CASE outcome = "ok" ->
                       [rendererObject EXCEPT !.baseSprite = TRUE,
                                        !.fabricFilter = TRUE,
                                        !.onStage = TRUE]
                  [] outcome = "shaderFails" ->
                       [rendererObject EXCEPT !.baseSprite = TRUE]
                  [] OTHER ->
                       [rendererObject EXCEPT !.baseSprite = TRUE,
                                        !.fabricFilter = TRUE]
    /\ initPc' =
           IF rendererObject.app /\ outcome = "ok" THEN "done" ELSE "failed"
    \* lines 274 and 289: the default design texture and the sprite's filter
    /\ filterDesign' =
           IF rendererObject.app /\ outcome # "shaderFails" THEN 0
           ELSE filterDesign
    /\ spriteFilters' =
           IF rendererObject.app /\ outcome # "shaderFails"
           THEN "fabricFilter"
           ELSE spriteFilters
    /\ UNCHANGED << batchPc, designFiles, batchIndex, results,
                    originalFilters, capturedFrame, designOutcome,
                    destroyCalls, requests, appVars, depthVars >>

\* destroy without the tests of lines 572 and 581: a call on a renderer
\* whose sprite is not set throws at this.baseSprite.parent, the catch of
\* line 588 logs it and this.app is left as it is.
destroyUnguarded ==
    /\ destroyCalls < MaxDestroyCalls
    /\ destroyCalls' = destroyCalls + 1
    /\ rendererObject' =
           IF rendererObject.baseSprite
           THEN [app |-> FALSE, baseSprite |-> FALSE, fabricFilter |-> FALSE,
                 onStage |-> FALSE, designTextures |-> 0]
           ELSE [rendererObject EXCEPT !.fabricFilter = FALSE,
                                 !.designTextures = 0]
    /\ UNCHANGED << initPc, requests, appVars, depthVars, batchVars >>

\* Lines 554-591: destroy.  Each resource is released if it is set.
destroy ==
    /\ destroyCalls < MaxDestroyCalls
    /\ destroyCalls' = destroyCalls + 1
    /\ rendererObject' =
           [designTextures |->
                IF rendererObject.designTextures > 0 THEN 0
                ELSE rendererObject.designTextures,
            fabricFilter |->
                IF rendererObject.fabricFilter THEN FALSE
                ELSE rendererObject.fabricFilter,
            baseSprite |->
                IF rendererObject.baseSprite THEN FALSE
                ELSE rendererObject.baseSprite,
            onStage |->
                IF rendererObject.baseSprite THEN FALSE
                ELSE rendererObject.onStage,
            app |-> IF rendererObject.app THEN FALSE ELSE rendererObject.app]
    /\ UNCHANGED << initPc, requests, appVars, depthVars, batchVars >>

(***************************************************************************)
(* Interactive renders on the WebGL path: App.jsx lines 379-403 and        *)
(* MockupRenderer.renderDesignAtPosition.  Every run of updateMockupRender *)
(* on this path starts a request for the placement of that run; requests   *)
(* are numbered in the order of their start, so a request with a greater   *)
(* number was made for a later placement.  Nothing orders the image loads, *)
(* the bitmap decodes and the texture uploads of different requests.       *)
(***************************************************************************)

\* The most requests started.
MaxRequests == 3

\* The design texture that request k hands to the filter.  Textures are
\* numbered: 0 is the default texture of initialize, j > 0 the texture of
\* design j of a generateResults call, -k the texture of request k.
RequestTexture(k) == 0 - k

\* No render started, on a renderer that initialize() has set up.
RenderIdle ==
    /\ requests = << >>
    /\ rendererObject = Initialized
    /\ initPc = "done"
    /\ destroyCalls = 0

\* App.jsx lines 379-401: the canvas for the design is made and the design
\* image set to load.
StartWebGLRender ==
    /\ Len(requests) < MaxRequests
    /\ requests' = Append(requests, "designImg")
    /\ UNCHANGED << objectVars, appVars, depthVars, batchVars >>

\* App.jsx lines 389-396: designImg.onload draws the design at the
\* placement of the request and awaits createImageBitmap(designCanvas).
designImgOnload(k) ==
    /\ k \in 1..Len(requests)
    /\ requests[k] = "designImg"
    /\ requests' = [requests EXCEPT ![k] = "createImageBitmap"]
    /\ UNCHANGED << objectVars, appVars, depthVars, batchVars >>

\* renderDesignAtPosition with line 345 before the wait of lines 336-342:
\* the texture is set in the filter as soon as it is made.
renderDesignAtPositionUnawaited(k) ==
    /\ k \in 1..Len(requests)
    /\ requests[k] = "createImageBitmap"
    /\ requests' =
           [requests EXCEPT ![k] = IF HasFilter THEN "texture" ELSE "skipped"]
    /\ filterDesign' = IF HasFilter THEN RequestTexture(k) ELSE filterDesign
    /\ UNCHANGED << batchPc, designFiles, batchIndex, results, spriteFilters,
                    originalFilters, capturedFrame, designOutcome, objectVars,
                    appVars, depthVars >>

\* App.jsx line 397 and pixiRenderer.js lines 323-342: the bitmap is ready,
\* renderDesignAtPosition makes the texture and awaits its readiness, or
\* returns at once when the filter is not set.
renderDesignAtPosition(k) ==
    /\ k \in 1..Len(requests)
    /\ requests[k] = "createImageBitmap"
    /\ requests' =
           [requests EXCEPT ![k] = IF HasFilter THEN "texture" ELSE "skipped"]
    /\ UNCHANGED << objectVars, appVars, depthVars, batchVars >>

\* renderDesignAtPosition using the filter and the application it found at
\* its start instead of reading this.fabricFilter and this.app after the
\* wait: the texture is set and the render made whatever destroy did.
DesignTextureReadyStale(k) ==
    /\ k \in 1..Len(requests)
    /\ requests[k] = "texture"
    /\ requests' = [requests EXCEPT ![k] = "done"]
    /\ filterDesign' = RequestTexture(k)
    /\ UNCHANGED << batchPc, designFiles, batchIndex, results, spriteFilters,
                    originalFilters, capturedFrame, designOutcome, objectVars,
                    appVars, depthVars >>

\* pixiRenderer.js lines 336-354: the texture is ready; it is set in the
\* filter and a render forced; a throw is caught and logged.
DesignTextureReady(k) ==
    /\ k \in 1..Len(requests)
    /\ requests[k] = "texture"
    /\ requests' =
           [requests EXCEPT ![k] = IF HasFilter /\ HasApp THEN "done"
                                                           ELSE "failed"]
    /\ filterDesign' = IF HasFilter THEN RequestTexture(k) ELSE filterDesign
    /\ UNCHANGED << batchPc, designFiles, batchIndex, results, spriteFilters,
                    originalFilters, capturedFrame, designOutcome, objectVars,
                    appVars, depthVars >>

(***************************************************************************)
(* The App component's specifications.                                     *)
(***************************************************************************)

(***************************************************************************)
(* pixiRenderer.js: buildLightingMasks, rgbToLab and                       *)
(* buildLightingMasksSimple, for one pixel.  The code computes in double   *)
(* precision; here the quantities are fixed-point integers, the scale of   *)
(* each being given with it.                                               *)
(***************************************************************************)

\* Lines 676-683: the channel c / 255 made linear, in 1/100000: c / 12.92
\* up to 0.04045 and ((c + 0.055) / 1.055) ^ 2.4 above it, for c = 0 .. 255.
LinearTable ==
    << 0, 30, 61, 91, 121, 152, 182, 212,
       243, 273, 304, 335, 368, 402, 439, 478,
       518, 561, 605, 651, 700, 750, 802, 857,
       913, 972, 1033, 1096, 1161, 1229, 1298, 1370,
       1444, 1521, 1600, 1681, 1764, 1850, 1938, 2029,
       2122, 2217, 2315, 2416, 2519, 2624, 2732, 2843,
       2956, 3071, 3190, 3310, 3434, 3560, 3689, 3820,
       3955, 4092, 4231, 4374, 4519, 4667, 4817, 4971,
       5127, 5286, 5448, 5613, 5781, 5951, 6125, 6301,
       6480, 6663, 6848, 7036, 7227, 7421, 7619, 7819,
       8022, 8228, 8438, 8650, 8866, 9084, 9306, 9531,
       9759, 9990, 10224, 10462, 10702, 10946, 11193, 11444,
       11697, 11954, 12214, 12477, 12744, 13014, 13287, 13563,
       13843, 14126, 14413, 14703, 14996, 15293, 15593, 15896,
       16203, 16513, 16827, 17144, 17465, 17789, 18116, 18447,
       18782, 19120, 19462, 19807, 20156, 20508, 20864, 21223,
       21586, 21953, 22323, 22697, 23074, 23455, 23840, 24228,
       24620, 25016, 25415, 25818, 26225, 26636, 27050, 27468,
       27889, 28315, 28744, 29177, 29614, 30054, 30499, 30947,
       31399, 31855, 32314, 32778, 33245, 33716, 34191, 34670,
       35153, 35640, 36131, 36625, 37124, 37626, 38133, 38643,
       39157, 39676, 40198, 40724, 41254, 41789, 42327, 42869,
       43415, 43966, 44520, 45079, 45641, 46208, 46778, 47353,
       47932, 48515, 49102, 49693, 50289, 50888, 51492, 52100,
       52712, 53328, 53948, 54572, 55201, 55834, 56471, 57112,
       57758, 58408, 59062, 59720, 60383, 61050, 61721, 62396,
       63076, 63760, 64448, 65141, 65837, 66539, 67244, 67954,
       68669, 69387, 70110, 70838, 71569, 72306, 73046, 73791,
       74540, 75294, 76052, 76815, 77582, 78354, 79130, 79910,
       80695, 81485, 82279, 83077, 83880, 84687, 85499, 86316,
       87137, 87962, 88792, 89627, 90466, 91310, 92158, 93011,
       93869, 94731, 95597, 96469, 97345, 98225, 99110, 100000 >>

Linear(c) == LinearTable[c + 1]

RECURSIVE CubeRootSearch(_, _, _)
\* The largest k in lo .. hi with k^3 <= n.
CubeRootSearch(n, lo, hi) ==
    IF lo = hi THEN lo
    ELSE LET mid == (lo + hi + 1) \div 2
         IN IF mid * mid * mid <= n
            THEN CubeRootSearch(n, mid, hi)
            ELSE CubeRootSearch(n, lo, mid - 1)

\* Lines 674-699, the L of rgbToLab in 1/100: y of line 687 in 1/100000,
\* then 116 * y^(1/3) - 16 above 0.008856 and
\* 116 * (7.787 * y + 16 / 116) - 16 = 903.292 * y up to it.
rgbToLab(r, g, b) ==
    LET y == (2126 * Linear(r) + 7152 * Linear(g) + 722 * Linear(b))
                 \div 10000
    IN IF y > 885
       THEN (116 * CubeRootSearch(y * 10000, 0, 1000)) \div 10 - 1600
       ELSE (9033 * y) \div 10000

\* Line 733, the perceived brightness in 1/255000.
brightness(r, g, b) == 299 * r + 587 * g + 114 * b

\* The shadow amount with the threshold at 0.6 instead of 0.5.
shadowValueWide(level, one) ==
    Max(0, Min(one, (6 * one) \div 10 - level))

\* Lines 628 and 736: clamp(0.5 - level, 0, 1), level and the result in
\* 1/one.
shadowValue(level, one) ==
    Max(0, Min(one, one \div 2 - level))

\* Lines 631 and 739: clamp(level - 0.5, 0, 1).
highlightValue(level, one) ==
    Max(0, Min(one, level - one \div 2))

\* The store of n / d into a Uint8ClampedArray (lines 634 and 640): the
\* nearest integer, the even one of two that are equally near, at most 255.
ToUint8Clamped(n, d) ==
    LET q == n \div d
        rest == n % d
        nearest == IF 2 * rest > d THEN q + 1
                   ELSE IF 2 * rest = d THEN q + (q % 2)
                   ELSE q
    IN Min(255, nearest)

\* Lines 628-643 and 736-751: the two mask pixels of a level.
MaskPixel(amount, one) ==
    [value |-> ToUint8Clamped(amount * 255, one), alpha |-> pixel.a]

\* The values of a channel of the mockup: the ends, a value on the linear
\* part of line 681, and values about the middle of both scales.
Channels == {0, 10, 118, 119, 127, 128, 255}

Pixels == [r : Channels, g : Channels, b : Channels, a : {0, 255}]

NoMaskPixel == [value |-> 0, alpha |-> 0]

MasksIdle ==
    /\ pixel = [r |-> 0, g |-> 0, b |-> 0, a |-> 0]
    /\ shadowData = NoMaskPixel
    /\ highlightData = NoMaskPixel
    /\ maskPc = "none"

\* Lines 617-644: one turn of the loop of buildLightingMasks.
buildLightingMasks ==
    /\ maskPc' = "lab"
    /\ LET L == rgbToLab(pixel.r, pixel.g, pixel.b)
       IN /\ shadowData' = MaskPixel(shadowValue(L, 10000), 10000)
          /\ highlightData' = MaskPixel(highlightValue(L, 10000), 10000)
    /\ UNCHANGED << pixel, normVars, shaderVars, canvasVars, tracking,
                    generateTimer, surfaceVars,
                    depthVars, batchVars, renderVars >>
    /\ UNCHANGED << mockupImage, designImage, designPosition, designSize,
                    isDragging, isResizing, dragOffset, isProcessing,
                    isInitialized, mockupRenderer, procPc, procFile,
                    designLoading, rafPending, timerPending, rendersInFrame,
                    lastOp, webglFailed, lastRenderPath >>

\* Lines 726-752: one turn of the loop of buildLightingMasksSimple.
buildLightingMasksSimple ==
    /\ maskPc' = "simple"
    /\ LET level == brightness(pixel.r, pixel.g, pixel.b)
       IN /\ shadowData' = MaskPixel(shadowValue(level, 255000), 255000)
          /\ highlightData' =
                 MaskPixel(highlightValue(level, 255000), 255000)
    /\ UNCHANGED << pixel, normVars, shaderVars, canvasVars, tracking,
                    generateTimer, surfaceVars,
                    depthVars, batchVars, renderVars >>
    /\ UNCHANGED << mockupImage, designImage, designPosition, designSize,
                    isDragging, isResizing, dragOffset, isProcessing,
                    isInitialized, mockupRenderer, procPc, procFile,
                    designLoading, rafPending, timerPending, rendersInFrame,
                    lastOp, webglFailed, lastRenderPath >>

(***************************************************************************)
(* depthEstimation.js: processDepthMap, lines 164-185, on the image data   *)
(* that getImageData returns after the downsampling and the blur of lines  *)
(* 153-162.  The data is a sequence of pixels in place of 1024 x 1024.     *)
(***************************************************************************)

\* The number of pixels of the image data.
DepthPixelCount == 3

\* Pixels of a depth image: greys, and colours that have the red of a grey.
DepthPixels ==
    { [r |-> 50, g |-> 50, b |-> 50, a |-> 255],
      [r |-> 100, g |-> 100, b |-> 100, a |-> 255],
      [r |-> 200, g |-> 200, b |-> 200, a |-> 255],
      [r |-> 100, g |-> 50, b |-> 20, a |-> 255],
      [r |-> 100, g |-> 200, b |-> 50, a |-> 255],
      [r |-> 200, g |-> 50, b |-> 50, a |-> 128] }

DepthImages == [1..DepthPixelCount -> DepthPixels]

RECURSIVE DepthMin(_, _, _)
\* Lines 169-174: min, folded over the red channel from 255.
DepthMin(data, i, min) ==
    IF i > Len(data) THEN min
    ELSE DepthMin(data, i + 1, Min(min, data[i].r))

RECURSIVE DepthMax(_, _, _)
\* Lines 169-174: max, folded over the red channel from 0.
DepthMax(data, i, max) ==
    IF i > Len(data) THEN max
    ELSE DepthMax(data, i + 1, Max(max, data[i].r))

\* Lines 180-181: the pixel rescaled; the three stores into the
\* Uint8ClampedArray round (data[i] - min) / range * 255.
NormalizedPixel(px, min, range) ==
    LET normalized == ToUint8Clamped((px.r - min) * 255, range)
    IN [r |-> normalized, g |-> normalized, b |-> normalized, a |-> px.a]

NormIdle ==
    /\ depthInput = << >>
    /\ depthData = << >>
    /\ normPc = "none"
    /\ divisions = 0

\* processDepthMap without the test of line 178: with range = 0 every
\* quotient is 0 / 0, and the store of NaN writes 0.
processDepthMapUnguarded ==
    /\ normPc = "read"
    /\ normPc' = "done"
    /\ LET min == DepthMin(depthData, 1, 255)
           max == DepthMax(depthData, 1, 0)
           range == max - min
       IN /\ depthData' =
                 [i \in 1..Len(depthData) |->
                      IF range > 0
                      THEN NormalizedPixel(depthData[i], min, range)
                      ELSE [r |-> 0, g |-> 0, b |-> 0, a |-> depthData[i].a]]
          /\ divisions' = Len(depthData)
    /\ UNCHANGED << depthInput, maskVars, shaderVars, canvasVars, tracking,
                    generateTimer, surfaceVars, depthVars, batchVars,
                    renderVars >>
    /\ UNCHANGED << mockupImage, designImage, designPosition, designSize,
                    isDragging, isResizing, dragOffset, isProcessing,
                    isInitialized, mockupRenderer, procPc, procFile,
                    designLoading, rafPending, timerPending, rendersInFrame,
                    lastOp, webglFailed, lastRenderPath >>

\* Lines 164-185: min and max of the red channel, and the rescaling of every
\* pixel when they differ.
processDepthMap ==
    /\ normPc = "read"
    /\ normPc' = "done"
    /\ LET min == DepthMin(depthData, 1, 255)
           max == DepthMax(depthData, 1, 0)
           range == max - min
       IN IF range > 0
          THEN /\ depthData' =
                      [i \in 1..Len(depthData) |->
                           NormalizedPixel(depthData[i], min, range)]
               /\ divisions' = Len(depthData)
          ELSE UNCHANGED << depthData, divisions >>
    /\ UNCHANGED << depthInput, maskVars, shaderVars, canvasVars, tracking,
                    generateTimer, surfaceVars, depthVars, batchVars,
                    renderVars >>
    /\ UNCHANGED << mockupImage, designImage, designPosition, designSize,
                    isDragging, isResizing, dragOffset, isProcessing,
                    isInitialized, mockupRenderer, procPc, procFile,
                    designLoading, rafPending, timerPending, rendersInFrame,
                    lastOp, webglFailed, lastRenderPath >>

(***************************************************************************)
(* pixiRenderer.js: the fragment shader of FabricWrapFilter, lines 40-73,  *)
(* for one fragment and one colour component (the shader treats the three  *)
(* alike).  Values of 0.0 .. 1.0 are integers in 1/Unit; products keep     *)
(* their exact denominators, where the GPU rounds to its float precision.  *)
(***************************************************************************)

Unit == 10

\* The denominator of the composite after the blend, and after the
\* lighting.
BlendScale == 10 * Unit * Unit * Unit

LightScale == BlendScale * 10 * Unit * Unit

\* Lines 46-50: the coordinate the design is sampled at, in 1/(100 * Unit):
\* vUV + (displacement - 0.5) * uStrength * 0.2, clamped to 0 .. 1.
Warp(uv, displacement, strength) ==
    Max(0, Min(100 * Unit,
               100 * uv + (2 * displacement - Unit) * strength))

\* Line 53: texture2D(uDesign, warp), the texel nearest to the coordinate.
SampleDesign(design, warp) ==
    design[Min(Len(design), (warp * Len(design)) \div (100 * Unit) + 1)]

\* The test of line 56 with a threshold of 0.
DesignVisibleAtAll(design) == design.a > 0

\* Line 56: design.a > 0.1.
DesignVisible(design) == 10 * design.a > Unit

\* The blend that adds the design to the base instead of multiplying.
BlendAdditive(base, design) ==
    IF DesignVisible(design)
    THEN base * Unit * (10 * Unit - 8 * design.a)
             + Min(Unit, base + design.c) * Unit * 8 * design.a
    ELSE base * 10 * Unit * Unit

\* Lines 55-59: above the alpha of 0.1 the composite is
\* mix(base, base * design, design.a * 0.8), else the base; in 1/BlendScale.
Blend(base, design) ==
    IF DesignVisible(design)
    THEN base * Unit * (10 * Unit - 8 * design.a)
             + base * design.c * 8 * design.a
    ELSE base * 10 * Unit * Unit

\* Lines 61-70: composite * (1 - shadow * uShadowPower * 0.6)
\* + highlight * uHighlightPower * 0.4, clamped to 0 .. 1; in 1/LightScale.
Lighting(composite, shadow, highlight, shadowPower, highlightPower) ==
    Max(0, Min(LightScale,
               composite * (10 * Unit * Unit - 6 * shadow * shadowPower)
                   + 4 * highlight * highlightPower * BlendScale))

\* The texels of a design: opaque white, an opaque colour, opaque black, a
\* colour at the alpha of 0.1, a colour at 0.2, and transparent.
DesignTexels ==
    { [c |-> Unit, a |-> Unit], [c |-> 4, a |-> Unit], [c |-> 0, a |-> Unit],
      [c |-> 4, a |-> 1], [c |-> 4, a |-> 2], [c |-> 0, a |-> 0] }

\* Design textures of two texels.
DesignTextures == [1..2 -> DesignTexels]

\* Fragments: uStrength of 0, of the filter's 0.1 (line 83) and of 3.0;
\* uShadowPower and uHighlightPower of lines 84-85.
Fragments ==
    [uv : {2, 8}, base : {3, Unit}, displacement : {0, Unit},
     shadow : {0, 5}, highlight : {0, 5}, design : DesignTextures,
     strength : {0, 1, 30}, shadowPower : {3}, highlightPower : {2}]

NoFragment ==
    [uv |-> 0, base |-> 0, displacement |-> 0, shadow |-> 0,
     highlight |-> 0, design |-> << >>, strength |-> 1, shadowPower |-> 3,
     highlightPower |-> 2]

ShaderIdle ==
    /\ fragment = NoFragment
    /\ fragColor = 0
    /\ shaderPc = "none"

\* The design texel the fragment samples.
SampledDesign ==
    SampleDesign(fragment.design,
                 Warp(fragment.uv, fragment.displacement, fragment.strength))

\* Lines 40-73: main.
FragmentShader ==
    /\ shaderPc = "ready"
    /\ shaderPc' = "done"
    /\ fragColor' =
           Lighting(Blend(fragment.base, SampledDesign), fragment.shadow,
                    fragment.highlight, fragment.shadowPower,
                    fragment.highlightPower)
    /\ UNCHANGED << fragment, maskVars, normVars, canvasVars, tracking,
                    generateTimer, surfaceVars, depthVars, batchVars,
                    renderVars >>
    /\ UNCHANGED << mockupImage, designImage, designPosition, designSize,
                    isDragging, isResizing, dragOffset, isProcessing,
                    isInitialized, mockupRenderer, procPc, procFile,
                    designLoading, rafPending, timerPending, rendersInFrame,
                    lastOp, webglFailed, lastRenderPath >>

(***************************************************************************)
(* The CPU composites: App.jsx renderFallbackCanvas (lines 185-288), whose *)
(* two images load one after the other and each call a function when       *)
(* loaded, and MockupRenderer.renderWithCanvas2D (pixiRenderer.js lines    *)
(* 507-549).  A canvas is the sequence of the drawImage calls made on it   *)
(* since it was last cleared; alphas are in tenths.                        *)
(***************************************************************************)

\* The most runs of renderFallbackCanvas followed.
MaxFallbackRenders == 2

\* The most designs given to renderWithCanvas2D.
MaxBitmaps == 2

\* A context as getContext('2d') gives it and as setting the canvas's
\* width leaves it.
DefaultContext == [operation |-> "source-over", alpha |-> 10]

\* ctx.drawImage(image, x, y, width, height) under the context's state, by
\* the run (or for the design) numbered k.
Draw(image, position, size, context, k) ==
    [image |-> image, position |-> position, size |-> size,
     operation |-> context.operation, alpha |-> context.alpha, render |-> k]

\* App.jsx lines 215-237: the rectangle the mockup is drawn in, fitted to
\* the canvas and centred (quotients taken whole).
FitRect(canvas, img) ==
    IF img.width * canvas.height > img.height * canvas.width
    THEN LET drawHeight == (canvas.width * img.height) \div img.width
         IN [position |-> [x |-> 0,
                           y |-> (canvas.height - drawHeight) \div 2],
             size |-> [width |-> canvas.width, height |-> drawHeight]]
    ELSE LET drawWidth == (canvas.height * img.width) \div img.height
         IN [position |-> [x |-> (canvas.width - drawWidth) \div 2,
                           y |-> 0],
             size |-> [width |-> drawWidth, height |-> canvas.height]]

CanvasIdle ==
    /\ fallbackRenders = << >>
    /\ overlayDraws = << >>
    /\ overlayContext = DefaultContext
    /\ offscreen = [draws |-> << >>, context |-> DefaultContext]

\* What the steps of the composites leave as it is.
CanvasFrame ==
    /\ UNCHANGED << maskVars, normVars, shaderVars, tracking, generateTimer,
                    surfaceVars, depthVars, batchVars, renderVars >>
    /\ UNCHANGED << mockupImage, designImage, designPosition, designSize,
                    isDragging, isResizing, dragOffset, isProcessing,
                    isInitialized, mockupRenderer, procPc, procFile,
                    designLoading, rafPending, timerPending, rendersInFrame,
                    lastOp, webglFailed, lastRenderPath >>

\* App.jsx lines 185-212 and 282-287: a run of renderFallbackCanvas that
\* passes the guard of line 186.  The canvas is sized, which clears it and
\* resets its context, and cleared; the mockup image is set to load.  The
\* functions made here hold the placement of this run.
renderFallbackCanvas ==
    /\ mockupImage # NoImage /\ designImage
    /\ Len(fallbackRenders) < MaxFallbackRenders
    /\ fallbackRenders' =
           Append(fallbackRenders,
                  [position |-> designPosition, size |-> designSize,
                   pc |-> "mockupImg"])
    /\ overlayDraws' = << >>
    /\ overlayContext' = DefaultContext
    /\ UNCHANGED offscreen
    /\ CanvasFrame

\* Lines 213-240 and 281: mockupImg.onload of run k draws the mockup and
\* sets the design image to load.
fallbackMockupOnload(k) ==
    /\ k \in 1..Len(fallbackRenders)
    /\ fallbackRenders[k].pc = "mockupImg"
    /\ LET rect == FitRect(Container, mockupImage)
       IN overlayDraws' =
              Append(overlayDraws,
                     Draw("mockup", rect.position, rect.size,
                          overlayContext, k))
    /\ fallbackRenders' = [fallbackRenders EXCEPT ![k].pc = "designImg"]
    /\ UNCHANGED << overlayContext, offscreen >>
    /\ CanvasFrame

\* Lines 284-286 and 278-280: an image of run k fails to load; the error
\* is logged.
fallbackImageOnerror(k) ==
    /\ k \in 1..Len(fallbackRenders)
    /\ fallbackRenders[k].pc \in {"mockupImg", "designImg"}
    /\ fallbackRenders' = [fallbackRenders EXCEPT ![k].pc = "failed"]
    /\ UNCHANGED << overlayDraws, overlayContext, offscreen >>
    /\ CanvasFrame

\* Lines 244-277: designImg.onload of run k draws the design twice at the
\* placement of the run, source-over at 0.9 and multiply at 0.3, and
\* resets the context.
fallbackDesignOnload(k) ==
    /\ k \in 1..Len(fallbackRenders)
    /\ fallbackRenders[k].pc = "designImg"
    /\ LET run == fallbackRenders[k]
           first == [operation |-> "source-over", alpha |-> 9]
           second == [operation |-> "multiply", alpha |-> 3]
       IN overlayDraws' =
              overlayDraws
                  \o << Draw("design", run.position, run.size, first, k),
                        Draw("design", run.position, run.size, second, k) >>
    /\ overlayContext' = [operation |-> "source-over", alpha |-> 10]
    /\ fallbackRenders' = [fallbackRenders EXCEPT ![k].pc = "done"]
    /\ UNCHANGED offscreen
    /\ CanvasFrame

\* pixiRenderer.js lines 507-549: renderWithCanvas2D with n design bitmaps
\* on a canvas of the mockup's size.  The mockup is drawn for the Original;
\* for each design the canvas is cleared, the mockup drawn, the design
\* drawn over the whole canvas, multiply at 0.7, and the context reset.
\* The function awaits nothing.
renderWithCanvas2D(n) ==
    /\ mockupImage # NoImage
    /\ LET origin == [x |-> 0, y |-> 0]
           whole == [width |-> mockupImage.width,
                     height |-> mockupImage.height]
           blend == [operation |-> "multiply", alpha |-> 7]
       IN offscreen' =
              [draws |->
                   << Draw("mockup", origin, whole, DefaultContext, n) >>
                       \o IF n = 0 THEN << >>
                          ELSE << Draw("design", origin, whole, blend, n) >>,
               context |-> [operation |-> "source-over", alpha |-> 10]]
    /\ UNCHANGED << fallbackRenders, overlayDraws, overlayContext >>
    /\ CanvasFrame

InitState ==
    /\ MasksIdle
    /\ NormIdle
    /\ ShaderIdle
    /\ CanvasIdle
    /\ mockupImage = NoImage
    /\ designImage = FALSE
    /\ designPosition = [x |-> DefaultOrigin, y |-> DefaultOrigin]
    /\ designSize = [width |-> DefaultSize, height |-> DefaultSize]
    /\ isDragging = FALSE
    /\ isResizing = FALSE
    /\ dragOffset = [x |-> 0, y |-> 0]
    /\ isProcessing = FALSE
    /\ isInitialized = FALSE
    /\ mockupRenderer = NoRenderer
    /\ procPc = "idle"
    /\ procFile = NoImage
    /\ designLoading = FALSE
    /\ timerPending = FALSE
    /\ rendersInFrame = 0
    /\ generateTimer = FALSE
    /\ pendingRenderer = FALSE
    /\ leakedRenderer = FALSE
    /\ lastOp = "init"
    /\ webglFailed = FALSE
    /\ lastRenderPath = "none"

InitApp ==
    InitState /\ tracking = TRUE /\ rafPending = TRUE /\ DepthIdle /\ BatchIdle
    /\ RenderIdle

InitPlace ==
    InitState /\ tracking = FALSE /\ rafPending = FALSE /\ DepthIdle
    /\ BatchIdle /\ RenderIdle

\* The App component with its render scheduling, over few inputs.
NextApp ==
    \/ \E file \in FewDims : MockupChange(file)
    \/ MockupOnload
    \/ MockupOnerror
    \/ \E outcome \in {"ok", "throws"} : DepthStage(outcome)
    \/ \E outcome \in {"ok", "throws"} : MasksStage(outcome)
    \/ \E outcome \in {"ok", "throws"} : RendererCreate(outcome)
    \/ \E outcome \in {"ok", "fails"} : RendererStage(outcome)
    \/ SettleTimer
    \/ DesignChange
    \/ DesignOnload
    \/ DesignOnerror
    \/ \E p \in FewPointers : handleMouseDown(p)
    \/ \E p \in FewPointers : resizeHandleMouseDown(p)
    \/ \E p \in FewPointers : handleMouseMove(p)
    \/ handleMouseUp
    \/ Frame
    \/ ResizeTimer
    \/ \E outcome \in {"ok", "throws"} : handleGenerate(outcome)
    \/ GenerateTimer

SpecApp == InitApp /\ [][NextApp]_vars

\* The App component's placement, over all the inputs, the render
\* scheduling left aside.
NextPlace ==
    \/ \E file \in MockupDims : MockupChange(file)
    \/ MockupOnload
    \/ MockupOnerror
    \/ \E outcome \in {"ok", "throws"} : DepthStage(outcome)
    \/ \E outcome \in {"ok", "throws"} : MasksStage(outcome)
    \/ \E outcome \in {"ok", "throws"} : RendererCreate(outcome)
    \/ \E outcome \in {"ok", "fails"} : RendererStage(outcome)
    \/ SettleTimer
    \/ DesignChange
    \/ DesignOnload
    \/ DesignOnerror
    \/ \E p \in Pointers : handleMouseDown(p)
    \/ \E p \in Pointers : resizeHandleMouseDown(p)
    \/ \E p \in Pointers : handleMouseMove(p)
    \/ handleMouseUp

SpecPlace == InitPlace /\ [][NextPlace]_vars

\* The App component once a mockup has been uploaded and processed with a
\* renderer: the state SpecPlace is in after MockupChange, MockupOnload,
\* the four stages and SettleTimer.
InitPointer ==
    /\ MasksIdle
    /\ NormIdle
    /\ ShaderIdle
    /\ CanvasIdle
    /\ mockupImage = PointerMockup
    /\ designImage = FALSE
    /\ designPosition = [x |-> DefaultOrigin, y |-> DefaultOrigin]
    /\ designSize = [width |-> DefaultSize, height |-> DefaultSize]
    /\ isDragging = FALSE
    /\ isResizing = FALSE
    /\ dragOffset = [x |-> 0, y |-> 0]
    /\ isProcessing = FALSE
    /\ isInitialized = TRUE
    /\ mockupRenderer = [mockup |-> PointerMockup]
    /\ procPc = "idle"
    /\ procFile = NoImage
    /\ designLoading = FALSE
    /\ timerPending = FALSE
    /\ rendersInFrame = 0
    /\ generateTimer = FALSE
    /\ pendingRenderer = FALSE
    /\ leakedRenderer = FALSE
    /\ lastOp = "other"
    /\ webglFailed = FALSE
    /\ lastRenderPath = "none"
    /\ tracking = FALSE /\ rafPending = FALSE
    /\ DepthIdle /\ BatchIdle /\ RenderIdle

\* The App component's design upload and pointer handling, over pointer
\* positions in and about the resize handle of the default placement.
NextPointer ==
    \/ DesignChange
    \/ DesignOnload
    \/ DesignOnerror
    \/ \E p \in HandlePointers : handleMouseDown(p)
    \/ \E p \in HandlePointers : resizeHandleMouseDown(p)
    \/ \E p \in MovePointers : handleMouseMove(p)
    \/ handleMouseUp

SpecPointer == InitPointer /\ [][NextPointer]_vars

(***************************************************************************)
(* The specifications of the depth provider and of the batch renderer.     *)
(***************************************************************************)

InitDepth == InitPlace

NextDepth ==
    \/ \E file \in ImageFiles : getDepthMap(file)
    \/ \E outcome \in {"load", "error"} : fileToBase64(outcome)
    \/ \E outcome \in {"ok", "notOk", "networkError"} : FetchProvider(outcome)
    \/ ErrorText
    \/ \E outcome \in {"url", "noUrl", "invalid"} : ResponseJson(outcome)
    \/ \E outcome \in {"ok", "notOk", "networkError"} :
           FetchDepthImage(outcome)
    \/ \E outcome \in {"ok", "error"} : DepthBlob(outcome)
    \/ \E outcome \in {"ok", "undecodable"} : DepthBitmap(outcome)
    \/ \E outcome \in {"ok", "rejects"} : FallbackLoad(outcome)
    \/ FallbackBitmap
    \/ Destructure
    \/ Preview
    \/ AwaitRejected

SpecDepth == InitDepth /\ [][NextDepth]_vars

InitBatch == InitPlace

NextBatch ==
    \/ \E files \in DesignLists, outcome \in {"ok", "throws"} :
           generateResults(files, outcome)
    \/ PushOriginal
    \/ \E outcome \in {"ok", "rejects"} : DecodeDesign(outcome)
    \/ \E outcome \in {"ok", "throws"} : TextureReady(outcome)
    \/ \E outcome \in {"ok", "throws"} : DelayElapsed(outcome)

SpecBatch == InitBatch /\ [][NextBatch]_vars

(***************************************************************************)
(* The specifications of the interactive renders: on a renderer that can   *)
(* be destroyed meanwhile, and on a renderer that generateResults is       *)
(* called on as well.                                                      *)
(***************************************************************************)

InitRender == InitPlace

NextRender ==
    \/ StartWebGLRender
    \/ \E k \in 1..MaxRequests : designImgOnload(k)
    \/ \E k \in 1..MaxRequests : renderDesignAtPosition(k)
    \/ \E k \in 1..MaxRequests : DesignTextureReady(k)
    \/ destroy

SpecRender == InitRender /\ [][NextRender]_vars

InitShared == InitPlace

\* The design lists of the calls on the shared renderer.
SharedLists == { files \in DesignLists : Len(files) <= 1 }

NextShared ==
    \/ \E files \in SharedLists, outcome \in {"ok", "throws"} :
           generateResults(files, outcome)
    \/ PushOriginal
    \/ \E outcome \in {"ok", "rejects"} : DecodeDesign(outcome)
    \/ \E outcome \in {"ok", "throws"} : TextureReady(outcome)
    \/ \E outcome \in {"ok", "throws"} : DelayElapsed(outcome)
    \/ StartWebGLRender
    \/ \E k \in 1..MaxRequests : designImgOnload(k)
    \/ \E k \in 1..MaxRequests : renderDesignAtPosition(k)
    \/ \E k \in 1..MaxRequests : DesignTextureReady(k)

SpecShared == InitShared /\ [][NextShared]_vars

\* The renderer object by itself: right after the constructor, with its
\* initialize, its interactive renders, generateResults and destroy.
InitRenderer ==
    /\ InitState /\ tracking = FALSE /\ rafPending = FALSE /\ DepthIdle
    /\ batchPc = "idle"
    /\ designFiles = << >>
    /\ batchIndex = 0
    /\ results = << >>
    /\ spriteFilters = "null"
    /\ originalFilters = "unbound"
    /\ filterDesign = 0
    /\ capturedFrame = NoFrame
    /\ designOutcome = << >>
    /\ requests = << >>
    /\ rendererObject = Constructed
    /\ initPc = "none"
    /\ destroyCalls = 0

NextRenderer ==
    \/ initialize
    \/ \E outcome \in {"ok", "shaderFails", "renderFails"} :
           InitializeTexturesReady(outcome)
    \/ destroy
    \/ StartWebGLRender
    \/ \E k \in 1..MaxRequests : designImgOnload(k)
    \/ \E k \in 1..MaxRequests : renderDesignAtPosition(k)
    \/ \E k \in 1..MaxRequests : DesignTextureReady(k)
    \/ \E files \in SharedLists, outcome \in {"ok", "throws"} :
           generateResults(files, outcome)
    \/ PushOriginal
    \/ \E outcome \in {"ok", "rejects"} : DecodeDesign(outcome)
    \/ \E outcome \in {"ok", "throws"} : TextureReady(outcome)
    \/ \E outcome \in {"ok", "throws"} : DelayElapsed(outcome)

SpecRenderer == InitRenderer /\ [][NextRenderer]_vars

\* The steps the runtime is bound to take once they are enabled: the
\* continuations of settled promises (captureFrame at line 371, the decoding
\* of line 396 or 393, createImageBitmap of App.jsx line 397) and the timer
\* of line 427.  Nothing binds a texture to emit 'loaded': the steps that
\* end a wait of lines 210-215, 336-342 and 405-411 carry no fairness.
RuntimeFairness ==
    /\ WF_vars(PushOriginal)
    /\ WF_vars(\E outcome \in {"ok", "rejects"} : DecodeDesign(outcome))
    /\ WF_vars(\E outcome \in {"ok", "throws"} : DelayElapsed(outcome))
    /\ \A k \in 1..MaxRequests : WF_vars(renderDesignAtPosition(k))

\* The renderer without destroy, under the runtime's scheduling.
NextWait ==
    \/ initialize
    \/ \E outcome \in {"ok", "shaderFails", "renderFails"} :
           InitializeTexturesReady(outcome)
    \/ StartWebGLRender
    \/ \E k \in 1..MaxRequests : designImgOnload(k)
    \/ \E k \in 1..MaxRequests : renderDesignAtPosition(k)
    \/ \E k \in 1..MaxRequests : DesignTextureReady(k)
    \/ \E files \in SharedLists, outcome \in {"ok", "throws"} :
           generateResults(files, outcome)
    \/ PushOriginal
    \/ \E outcome \in {"ok", "rejects"} : DecodeDesign(outcome)
    \/ \E outcome \in {"ok", "throws"} : TextureReady(outcome)
    \/ \E outcome \in {"ok", "throws"} : DelayElapsed(outcome)

SpecWait == InitRenderer /\ [][NextWait]_vars /\ RuntimeFairness

(***************************************************************************)
(* The specification of the mask builders: a pixel of a mockup, and the    *)
(* builders applied to it.                                                 *)
(***************************************************************************)

InitMasks ==
    /\ pixel \in Pixels
    /\ shadowData = NoMaskPixel
    /\ highlightData = NoMaskPixel
    /\ maskPc = "none"
    /\ NormIdle
    /\ ShaderIdle
    /\ CanvasIdle
    /\ mockupImage = NoImage
    /\ designImage = FALSE
    /\ designPosition = [x |-> DefaultOrigin, y |-> DefaultOrigin]
    /\ designSize = [width |-> DefaultSize, height |-> DefaultSize]
    /\ isDragging = FALSE
    /\ isResizing = FALSE
    /\ dragOffset = [x |-> 0, y |-> 0]
    /\ isProcessing = FALSE
    /\ isInitialized = FALSE
    /\ mockupRenderer = NoRenderer
    /\ procPc = "idle"
    /\ procFile = NoImage
    /\ designLoading = FALSE
    /\ timerPending = FALSE
    /\ rendersInFrame = 0
    /\ generateTimer = FALSE
    /\ pendingRenderer = FALSE
    /\ leakedRenderer = FALSE
    /\ lastOp = "init"
    /\ webglFailed = FALSE
    /\ lastRenderPath = "none"
    /\ tracking = FALSE /\ rafPending = FALSE
    /\ DepthIdle /\ BatchIdle /\ RenderIdle

NextMasks ==
    \/ buildLightingMasks
    \/ buildLightingMasksSimple

SpecMasks == InitMasks /\ [][NextMasks]_vars

(***************************************************************************)
(* The specification of processDepthMap: the image data of a depth bitmap, *)
(* and its normalization.                                                  *)
(***************************************************************************)

\* The App component before any upload, the variables of the functions on
\* pixels left aside.
AppAtMount ==
    /\ mockupImage = NoImage
    /\ designImage = FALSE
    /\ designPosition = [x |-> DefaultOrigin, y |-> DefaultOrigin]
    /\ designSize = [width |-> DefaultSize, height |-> DefaultSize]
    /\ isDragging = FALSE
    /\ isResizing = FALSE
    /\ dragOffset = [x |-> 0, y |-> 0]
    /\ isProcessing = FALSE
    /\ isInitialized = FALSE
    /\ mockupRenderer = NoRenderer
    /\ procPc = "idle"
    /\ procFile = NoImage
    /\ designLoading = FALSE
    /\ timerPending = FALSE
    /\ rendersInFrame = 0
    /\ generateTimer = FALSE
    /\ pendingRenderer = FALSE
    /\ leakedRenderer = FALSE
    /\ lastOp = "init"
    /\ webglFailed = FALSE
    /\ lastRenderPath = "none"
    /\ tracking = FALSE /\ rafPending = FALSE
    /\ DepthIdle /\ BatchIdle /\ RenderIdle

InitNorm ==
    /\ AppAtMount
    /\ MasksIdle
    /\ ShaderIdle
    /\ CanvasIdle
    /\ depthInput \in DepthImages
    /\ depthData = depthInput
    /\ normPc = "read"
    /\ divisions = 0

NextNorm == processDepthMap

SpecNorm == InitNorm /\ [][NextNorm]_vars

(***************************************************************************)
(* The specification of the fragment shader: a fragment, and the shader    *)
(* run on it.                                                              *)
(***************************************************************************)

InitShader ==
    /\ AppAtMount
    /\ MasksIdle
    /\ NormIdle
    /\ CanvasIdle
    /\ fragment \in Fragments
    /\ fragColor = 0
    /\ shaderPc = "ready"

NextShader == FragmentShader

SpecShader == InitShader /\ [][NextShader]_vars

(***************************************************************************)
(* The specification of the CPU composites: the App component once a       *)
(* mockup has been processed with the renderer's initialization failed     *)
(* (line 143) and a design has been loaded; the design is dragged, and     *)
(* renderFallbackCanvas runs with the placement of the moment.             *)
(***************************************************************************)

\* The pointer positions of the drag.
CanvasPointers == { [x |-> 100, y |-> 100], [x |-> 400, y |-> 400] }

\* The state SpecPlace is in after MockupChange, MockupOnload, the stages
\* with the renderer failing, DesignChange, DesignOnload and SettleTimer.
InitCanvas ==
    /\ MasksIdle
    /\ NormIdle
    /\ ShaderIdle
    /\ CanvasIdle
    /\ mockupImage = PointerMockup
    /\ designImage = TRUE
    /\ designPosition = [x |-> DefaultOrigin, y |-> DefaultOrigin]
    /\ designSize = [width |-> DefaultSize, height |-> DefaultSize]
    /\ isDragging = FALSE
    /\ isResizing = FALSE
    /\ dragOffset = [x |-> 0, y |-> 0]
    /\ isProcessing = FALSE
    /\ isInitialized = TRUE
    /\ mockupRenderer = NoRenderer
    /\ procPc = "idle"
    /\ procFile = NoImage
    /\ designLoading = FALSE
    /\ timerPending = FALSE
    /\ rendersInFrame = 0
    /\ generateTimer = FALSE
    /\ pendingRenderer = FALSE
    /\ leakedRenderer = FALSE
    /\ lastOp = "other"
    /\ webglFailed = TRUE
    /\ lastRenderPath = "none"
    /\ tracking = FALSE /\ rafPending = FALSE
    /\ DepthIdle /\ BatchIdle /\ RenderIdle

NextCanvas ==
    \/ \E p \in CanvasPointers : handleMouseDown(p)
    \/ \E p \in CanvasPointers : handleMouseMove(p)
    \/ handleMouseUp
    \/ renderFallbackCanvas
    \/ \E k \in 1..MaxFallbackRenders : fallbackMockupOnload(k)
    \/ \E k \in 1..MaxFallbackRenders : fallbackImageOnerror(k)
    \/ \E k \in 1..MaxFallbackRenders : fallbackDesignOnload(k)
    \/ \E n \in 0..MaxBitmaps : renderWithCanvas2D(n)

SpecCanvas == InitCanvas /\ [][NextCanvas]_vars

(***************************************************************************)
(* The specification of the processing flag: uploads and downloads, the    *)
(* render scheduling left aside, under what the runtime is bound to do.    *)
(* An image load ends by onload or onerror, the depth request and the      *)
(* decoding of the bitmap settle, the constructor returns or throws, and   *)
(* armed timeouts fire.  Nothing binds initialize to settle: it waits for  *)
(* its textures without a bound (pixiRenderer.js lines 210-215).           *)
(***************************************************************************)

ProcessingFairness ==
    /\ WF_vars(MockupOnload \/ MockupOnerror)
    /\ WF_vars(\E outcome \in {"ok", "throws"} : DepthStage(outcome))
    /\ WF_vars(\E outcome \in {"ok", "throws"} : MasksStage(outcome))
    /\ WF_vars(\E outcome \in {"ok", "throws"} : RendererCreate(outcome))
    /\ WF_vars(SettleTimer)
    /\ WF_vars(GenerateTimer)

NextProcessing ==
    \/ \E file \in FewDims : MockupChange(file)
    \/ MockupOnload
    \/ MockupOnerror
    \/ \E outcome \in {"ok", "throws"} : DepthStage(outcome)
    \/ \E outcome \in {"ok", "throws"} : MasksStage(outcome)
    \/ \E outcome \in {"ok", "throws"} : RendererCreate(outcome)
    \/ \E outcome \in {"ok", "fails"} : RendererStage(outcome)
    \/ SettleTimer
    \/ DesignChange
    \/ DesignOnload
    \/ DesignOnerror
    \/ \E outcome \in {"ok", "throws"} : handleGenerate(outcome)
    \/ GenerateTimer

SpecProcessing == InitPlace /\ [][NextProcessing]_vars /\ ProcessingFairness

(***************************************************************************)
(* The placement claims, under SpecPlace.                                  *)
(***************************************************************************)
\* C1: after every pointerMove handled while Dragging, the origin lies in
\* [0, containerSize - placementSize] on both axes.
C1_DragOriginInRange ==
    lastOp = "drag" =>
        /\ 0 <= designPosition.x
        /\ designPosition.x <= Container.width - designSize.width
        /\ 0 <= designPosition.y
        /\ designPosition.y <= Container.height - designSize.height

\* C2: after every pointerMove handled while Resizing, the size is at least
\* 50 x 50.
C2_ResizeAtLeastMinSize ==
    lastOp = "resize" =>
        designSize.width >= MinSize /\ designSize.height >= MinSize

\* C3: after every pointerMove handled while Resizing, the placement does
\* not extend beyond the container from its origin.
C3_ResizeWithinContainer ==
    lastOp = "resize" =>
        /\ designPosition.x + designSize.width <= Container.width
        /\ designPosition.y + designSize.height <= Container.height

\* A resize with the pointer beyond the container's corner: the size is
\* cut at the container's right and bottom edges.
C3_Witness ==
    /\ lastOp = "resize"
    /\ designSize.width > MinSize
    /\ designPosition.x + designSize.width = Container.width
    /\ designPosition.y + designSize.height = Container.height

\* C4: in every reachable state the placement rectangle lies inside the
\* container.
C4_PlacementInsideContainer ==
    /\ designPosition.x >= 0
    /\ designPosition.y >= 0
    /\ designPosition.x + designSize.width <= Container.width
    /\ designPosition.y + designSize.height <= Container.height

(***************************************************************************)
(* The session and scheduling claims, under SpecApp.                       *)
(***************************************************************************)
\* C9: once the renderer of the current mockup failed to initialize, the
\* session is initialized and every render since then took the fallback
\* path.
C9_FallbackAfterRendererFailure ==
    webglFailed =>
        /\ isInitialized
        /\ lastRenderPath \in {"none", "fallback"}

\* C10: a pointerMove that changes the placement leaves at most one run of
\* updateMockupRender in the current display refresh.
C10_OneRenderPerRefresh ==
    lastOp \in {"drag", "resize"} => rendersInFrame <= 1

(***************************************************************************)
(* The batch renderer's claims, under SpecBatch.                           *)
(***************************************************************************)

\* C5: when generateResults returns, there is one result for the Original
\* and one for each design; the result of a design that could not be
\* decoded or rendered is the failed one (name marked failed, image the
\* placeholder), the result of every other design is a capture named after
\* it that was taken with its own texture in the filter; and the call is
\* rejected only before the first design, never by a design's failure.
C5_FailureIsolated ==
    /\ batchPc = "returned" =>
         /\ Len(results) = Len(designFiles) + 1
         /\ Len(designOutcome) = Len(designFiles)
         /\ \A j \in 1..Len(designFiles) :
                IF designOutcome[j] = "failed"
                THEN results[j + 1] = FailedResult(j, designFiles[j])
                ELSE /\ results[j + 1].name =
                            DesignResult(j, designFiles[j], NoFrame).name
                     /\ results[j + 1].image.kind = "capture"
                     /\ results[j + 1].image.design = j
    /\ batchPc = "rejected" => designOutcome = << >>

\* A batch of three designs returned, the second design failed and the
\* third one captured.
C5_Witness ==
    /\ batchPc = "returned"
    /\ designOutcome = << "ok", "failed", "ok" >>

C7_GetDepthMapNeverRejects == depthPc # "rejected"

\* C8: the code that awaits getDepthMap has, once it has destructured the
\* value, a defined depthMap and a defined method.
C8_ConsumerGetsBitmapAndMethod ==
    depthPc \in {"preview", "processDepthMap"} =>
        /\ depthMap = "defined"
        /\ method = "defined"

(***************************************************************************)
(* The claims on interactive renders, under SpecRender and SpecShared.     *)
(***************************************************************************)

\* C11: once all the interactive renders that were started have completed,
\* the design texture in the filter is the one of the render started last,
\* that is, for the latest placement.
C11_LatestPlacementWins ==
    (requests # << >> /\ \A k \in 1..Len(requests) : requests[k] = "done") =>
        filterDesign = RequestTexture(Len(requests))

\* C12: from the step of generateResults that sets design i in the filter
\* to the capture of result i, the filter holds the texture of design i,
\* so that every captured result shows its own design.
C12_CaptureShowsOwnDesign ==
    /\ batchPc = "delay" => filterDesign = batchIndex
    /\ \A j \in 1..Len(designOutcome) :
           designOutcome[j] = "ok" => results[j + 1].image.design = j

(***************************************************************************)
(* The claims on the sessions of the App component, under SpecApp.         *)
(***************************************************************************)

RenderersOnSurface ==
    (IF mockupRenderer # NoRenderer THEN 1 ELSE 0)
    + (IF pendingRenderer THEN 1 ELSE 0)
    + (IF leakedRenderer THEN 1 ELSE 0)

\* C14: at any time at most one renderer holds the WebGL canvas.
C14_OneRendererOnSurface == RenderersOnSurface <= 1

(***************************************************************************)
(* The claims on the renderer object, under SpecRenderer.                  *)
(***************************************************************************)

\* All the resources of the renderer are released.
Released ==
    /\ ~ rendererObject.app
    /\ ~ rendererObject.baseSprite
    /\ ~ rendererObject.fabricFilter
    /\ ~ rendererObject.onStage
    /\ rendererObject.designTextures = 0

\* C15: every destroy call leaves the sprite, the filter, the design
\* textures and the application cleared, whether the renderer was
\* initialized or not, and a destroy call on a renderer whose resources are
\* all released changes none of its fields.
C15_DestroyIdempotent ==
    [][ (destroyCalls' = destroyCalls + 1) =>
            /\ Released'
            /\ Released => rendererObject' = rendererObject ]_vars

\* destroy was called twice on a renderer that was never initialized.
C15_Witness ==
    /\ destroyCalls = 2
    /\ initPc = "none"
    /\ Released

\* C16: every wait for a texture ends, by the texture's signal or else by an
\* explicit failure: initialize leaves its wait of lines 210-215,
\* generateResults its wait of lines 405-411 and every interactive render
\* its wait of lines 336-342.
C16_TextureWaitsEnd ==
    /\ (initPc = "textures") ~> (initPc \in {"done", "failed"})
    /\ (batchPc = "texture") ~> (batchPc # "texture")
    /\ \A k \in 1..MaxRequests :
           (Len(requests) >= k /\ requests[k] = "texture")
               ~> (Len(requests) >= k /\ requests[k] \in {"done", "failed"})

(***************************************************************************)
(* The pointer claims, under SpecPointer.                                  *)
(***************************************************************************)

Idle == ~ isDragging /\ ~ isResizing

\* A mousedown at p: on the design indicator or on its resize handle.
PointerDown(p) == handleMouseDown(p) \/ resizeHandleMouseDown(p)

PlacementUnchanged == UNCHANGED << designPosition, designSize >>

\* What a mousedown at p in Idle leads to, the handle region being given.
DownOutcome(p, inHandleRegion) ==
    IF inHandleRegion
    THEN isResizing' /\ ~ isDragging'
    ELSE IF InDesign(p)
         THEN /\ isDragging' /\ ~ isResizing'
              /\ dragOffset' = [x |-> p.x - designPosition.x,
                                y |-> p.y - designPosition.y]
         ELSE ~ isDragging' /\ ~ isResizing'

C18_PointerUpEndsTracking ==
    [][ /\ (lastOp' = "up") => Idle'
        /\ (Idle /\ lastOp' # "designLoad") => PlacementUnchanged ]_vars

\* The pointer was released after a drag or a resize that changed the
\* placement.
C18_Witness ==
    /\ lastOp = "up"
    /\ Idle
    /\ \/ designPosition # [x |-> DefaultOrigin, y |-> DefaultOrigin]
       \/ designSize # [width |-> DefaultSize, height |-> DefaultSize]

DefaultPlacement ==
    /\ designPosition = [x |-> DefaultOrigin, y |-> DefaultOrigin]
    /\ designSize = [width |-> DefaultSize, height |-> DefaultSize]

\* C19: every load of a design leaves the placement at the default, origin
\* (50, 50) and size 200 x 200, whatever the placement was before, and the
\* design changes by no other step: the design shown and the placement
\* change together.
C19_UploadResetsPlacement ==
    [][ /\ (lastOp' = "designLoad") => (designImage' /\ DefaultPlacement')
        /\ (designImage' # designImage) => (lastOp' = "designLoad") ]_vars

\* A design was loaded while a drag begun on the design before it was
\* going on.
C19_Witness ==
    /\ lastOp = "designLoad"
    /\ isDragging
    /\ dragOffset # [x |-> 0, y |-> 0]
    /\ DefaultPlacement

(***************************************************************************)
(* The claim on the mask builders, under SpecMasks.                        *)
(***************************************************************************)

\* C20: for every pixel, and for both builders, the value written to the
\* shadow mask and the value written to the highlight mask are not both
\* greater than 0.
C20_MasksExclusive ==
    ~ (shadowData.value > 0 /\ highlightData.value > 0)

\* The LAB-based builder wrote a highlight and no shadow for an orange
\* pixel, whose L is above 50.
C20_Witness ==
    /\ maskPc = "lab"
    /\ pixel.r = 255 /\ pixel.g = 128 /\ pixel.b = 0
    /\ highlightData.value > 0
    /\ shadowData.value = 0

(***************************************************************************)
(* The claims on processDepthMap, under SpecNorm.                          *)
(***************************************************************************)

\* The luminance of a pixel, in 1/1000, with the weights of the perceived
\* brightness.
Luminance(px) == 299 * px.r + 587 * px.g + 114 * px.b

LuminanceIsMin(data, i) ==
    \A j \in 1..Len(data) : Luminance(data[i]) <= Luminance(data[j])

LuminanceIsMax(data, i) ==
    \A j \in 1..Len(data) : Luminance(data[i]) >= Luminance(data[j])

LuminanceUniform(data) ==
    \A i, j \in 1..Len(data) : Luminance(data[i]) = Luminance(data[j])

RedUniform(data) ==
    \A i, j \in 1..Len(data) : data[i].r = data[j].r

IsGrey(px, value) == px.r = value /\ px.g = value /\ px.b = value

\* C21: when the luminance of the input is not uniform, the normalized
\* data spans the full range: the pixels of the least luminance are 0,
\* those of the greatest are 255, and every value is in 0..255.
C21_NormalizedSpansRange ==
    (normPc = "done" /\ ~ LuminanceUniform(depthInput)) =>
        \A i \in 1..Len(depthData) :
            /\ LuminanceIsMin(depthInput, i) => IsGrey(depthData[i], 0)
            /\ LuminanceIsMax(depthInput, i) => IsGrey(depthData[i], 255)
            /\ depthData[i].r \in 0..255
            /\ depthData[i].g \in 0..255
            /\ depthData[i].b \in 0..255

C29_ChannelsReplicated ==
    normPc = "done" =>
        \A i \in 1..Len(depthData) :
            depthData[i].r = depthData[i].g /\ depthData[i].g = depthData[i].b

(***************************************************************************)
(* The claims on the fragment shader, under SpecShader.                    *)
(***************************************************************************)

\* The base colour with the shadow and the highlight applied, in
\* 1/LightScale.
BaseWithLighting ==
    Lighting(fragment.base * 10 * Unit * Unit, fragment.shadow,
             fragment.highlight, fragment.shadowPower,
             fragment.highlightPower)

UniformWhiteDesign ==
    \A i \in 1..Len(fragment.design) :
        fragment.design[i] = [c |-> Unit, a |-> Unit]

\* C23: with a strength of 0 and a design that is opaque white everywhere,
\* the output is the base colour with the shadow and the highlight
\* applied, clamp(B * (1 - shadow * shadowPower * 0.6)
\* + highlight * highlightPower * 0.4, 0, 1), whatever the depth.
C23_WhiteDesignIsLightingOnly ==
    (shaderPc = "done" /\ fragment.strength = 0 /\ UniformWhiteDesign) =>
        fragColor = BaseWithLighting

\* The shader ran with strength 0 on a fragment of a white design, in the
\* shadow and at the far end of the depth.
C23_Witness ==
    /\ shaderPc = "done"
    /\ fragment.strength = 0
    /\ UniformWhiteDesign
    /\ fragment.shadow > 0
    /\ fragment.displacement = Unit
    /\ fragColor < fragment.base * (LightScale \div Unit)

\* C30: where the alpha of the sampled design is at most 0.1, the output
\* is the base colour with the shadow and the highlight applied, whatever
\* the colour of the design, the depth and the strength.
C30_FaintDesignIsLightingOnly ==
    (shaderPc = "done" /\ 10 * SampledDesign.a <= Unit) =>
        fragColor = BaseWithLighting

\* The shader ran on a fragment whose depth and strength warp the sample
\* onto a coloured texel of alpha 0.1.
C30_Witness ==
    /\ shaderPc = "done"
    /\ SampledDesign = [c |-> 4, a |-> 1]
    /\ fragment.strength = 30
    /\ SampleDesign(fragment.design, 100 * fragment.uv) # SampledDesign
    /\ fragColor = BaseWithLighting

(***************************************************************************)
(* Further claims on generateResults, under SpecBatch.                     *)
(***************************************************************************)

\* C24: the results are in the order of the designs: the first is the
\* capture of the base, and result j + 1 is that of the j-th design file,
\* named by j and by the file's name, failed or not; while the call runs
\* the results are the first ones of that list.
C24_ResultsInDesignOrder ==
    /\ Len(results) <= Len(designFiles) + 1
    /\ batchPc = "returned" => Len(results) = Len(designFiles) + 1
    /\ results # << >> =>
           results[1].name.index = 0 /\ results[1].image.kind = "capture"
    /\ \A j \in 1..(Len(results) - 1) :
           /\ results[j + 1].name.text = "Design"
           /\ results[j + 1].name.index = j
           /\ results[j + 1].name.file = designFiles[j].name
           /\ results[j + 1].name.failed = (designOutcome[j] = "failed")

\* A batch of three designs, the first file given again as the third,
\* returned with the second design failed.
C24_Witness ==
    /\ batchPc = "returned"
    /\ Len(designFiles) = 3
    /\ designFiles[1] = designFiles[3]
    /\ designFiles[1] # designFiles[2]
    /\ designOutcome = << "ok", "failed", "ok" >>
    /\ Len(results) = 4

\* C25: the first result is captured while the sprite has no filter and
\* before any design of the batch is decoded or set in the filter.
C25_OriginalCapturedUnfiltered ==
    /\ batchPc = "original" =>
           /\ capturedFrame.kind = "capture"
           /\ ~ capturedFrame.filtered
           /\ spriteFilters = "null"
           /\ batchIndex = 0
           /\ designOutcome = << >>
           /\ results = << >>
    /\ results # << >> =>
           results[1].image.kind = "capture" /\ ~ results[1].image.filtered

\* The Original of a batch of two designs is in the results, and the first
\* design is being decoded with the filter attached again.
C25_Witness ==
    /\ batchPc = "decode"
    /\ batchIndex = 1
    /\ Len(designFiles) = 2
    /\ Len(results) = 1
    /\ ~ results[1].image.filtered
    /\ spriteFilters = "fabricFilter"

\* C26: when a call of generateResults has ended, by its return or by its
\* rejection, the sprite has the filters it had when the call was made.
C26_FiltersRestored ==
    batchPc \in {"returned", "rejected"} => spriteFilters = originalFilters

(***************************************************************************)
(* The order of the depth provider and the fallback, under SpecDepth.      *)
(***************************************************************************)

\* The awaits of getDepthMapFAL and those of createFallbackDepthMap.
ProviderStages ==
    {"fileToBase64", "fetch", "errorText", "json", "fetchDepth", "blob",
     "decode"}

FallbackStages == {"fallbackLoad", "fallbackDraw"}

\* The errors of a non-success response, of a payload without a depth URL
\* and of the network.
ProviderFailures == {"status", "noUrl", "network"}

PersistentTexturesReady == initPc \in {"done", "failed"}

\* The wait of lines 336-342 for the texture of request k has ended.
RequestTextureReady(k) == requests[k] \in {"done", "failed"}

\* C28: no texture is held for sampling before its wait has ended: the
\* sprite and the filter, which hold the base, depth, shadow and highlight
\* textures, exist only once initialize has left its wait; the texture of
\* an interactive render is the filter's design only once that render has
\* left its wait; and the texture of a design of generateResults becomes
\* the filter's design only in the step that ends its wait.
C28_TexturesReadyBeforeSampled ==
    [][ /\ rendererObject'.baseSprite \/ rendererObject'.fabricFilter =>
               PersistentTexturesReady'
        /\ \A k \in 1..Len(requests') :
               filterDesign' = RequestTexture(k) => RequestTextureReady(k)'
        /\ filterDesign' # filterDesign /\ filterDesign' > 0 =>
               batchPc = "texture" /\ filterDesign' = batchIndex
        /\ filterDesign' # filterDesign /\ filterDesign' = 0 =>
               initPc = "textures" ]_vars

\* On an initialized renderer the texture of the second interactive render
\* is the filter's design, while the first render still waits for its
\* texture.
C28_Witness ==
    /\ initPc = "done"
    /\ Len(requests) >= 2
    /\ requests[1] = "texture"
    /\ requests[2] = "done"
    /\ filterDesign = RequestTexture(2)

(***************************************************************************)
(* The blend cap, under SpecShader.                                        *)
(***************************************************************************)

\* The composite of the fragment after the blend of lines 55-59 and before
\* the lighting, in 1/BlendScale.
Composite == Blend(fragment.base, SampledDesign)

\* C31: the blended colour, before the lighting, lies between 0.2 times the
\* base colour and the base colour.
C31_BlendKeepsBase ==
    shaderPc = "done" =>
        /\ 2 * fragment.base * Unit * Unit <= Composite
        /\ Composite <= fragment.base * 10 * Unit * Unit

\* An opaque black texel on a white base: the composite is 0.2 of the base.
C31_Witness ==
    /\ shaderPc = "done"
    /\ SampledDesign = [c |-> 0, a |-> Unit]
    /\ fragment.base = Unit
    /\ Composite = 2 * fragment.base * Unit * Unit

(***************************************************************************)
(* The CPU composites, under SpecCanvas.                                   *)
(***************************************************************************)

\* s is a run of consecutive elements of t.
IsPart(s, t) ==
    \E i \in 1..(Len(t) + 1) :
        i + Len(s) - 1 <= Len(t) /\ s = SubSeq(t, i, i + Len(s) - 1)

\* The draws of run k of renderFallbackCanvas that are on the canvas.
DrawsOf(k) ==
    LET OfRun(d) == d.render = k IN SelectSeq(overlayDraws, OfRun)

\* The mockup, then the design at the placement of run k, source-over at
\* 0.9, then the design there again, multiply at 0.3.
ExpectedDraws(k) ==
    LET run == fallbackRenders[k]
        rect == FitRect(Container, mockupImage)
    IN << Draw("mockup", rect.position, rect.size, DefaultContext, k),
          Draw("design", run.position, run.size,
               [operation |-> "source-over", alpha |-> 9], k),
          Draw("design", run.position, run.size,
               [operation |-> "multiply", alpha |-> 3], k) >>

\* The draws of every run of renderFallbackCanvas that are on the canvas
\* are in the order of ExpectedDraws, those of the latest run all there
\* once it has ended, and the context is left at source-over and 1.0.
OverlayDrawOrder ==
    /\ overlayContext = DefaultContext
    /\ \A k \in 1..Len(fallbackRenders) :
           /\ IsPart(DrawsOf(k), ExpectedDraws(k))
           /\ k = Len(fallbackRenders) /\ fallbackRenders[k].pc = "done" =>
                  DrawsOf(k) = ExpectedDraws(k)

\* A composite of renderWithCanvas2D that holds a design is the mockup,
\* the design source-over at 0.9 and the design multiply at 0.3 in the
\* same rectangle, and the context is left at source-over and 1.0.
OffscreenDrawOrder ==
    /\ offscreen.context = DefaultContext
    /\ Len(offscreen.draws) > 1 =>
           /\ Len(offscreen.draws) = 3
           /\ offscreen.draws[1].image = "mockup"
           /\ offscreen.draws[2].image = "design"
           /\ offscreen.draws[2].operation = "source-over"
           /\ offscreen.draws[2].alpha = 9
           /\ offscreen.draws[3] =
                  [offscreen.draws[2] EXCEPT !.operation = "multiply",
                                             !.alpha = 3]

\* C32: every CPU composite draws the mockup, then the design at its
\* placement source-over at 0.9, then the design there multiply at 0.3,
\* draws no mask, and leaves the context at source-over and 1.0.
C32_FallbackDrawOrder ==
    /\ OverlayDrawOrder
    /\ OffscreenDrawOrder
    /\ \A i \in 1..Len(overlayDraws) :
           overlayDraws[i].image \in {"mockup", "design"}
    /\ \A i \in 1..Len(offscreen.draws) :
           offscreen.draws[i].image \in {"mockup", "design"}

\* Every run of renderFallbackCanvas has drawn its design.
AllCallbacksRun ==
    /\ fallbackRenders # << >>
    /\ \A k \in 1..Len(fallbackRenders) : fallbackRenders[k].pc = "done"

\* The index of the last draw of the mockup on the overlay canvas.
LastMockupDraw ==
    LET at == { i \in 1..Len(overlayDraws) :
                    overlayDraws[i].image = "mockup" }
    IN IF at = { } THEN 0 ELSE CHOOSE i \in at : \A j \in at : j <= i

\* The draws of the design that no later draw of the mockup covers.
VisibleDesignDraws ==
    SubSeq(overlayDraws, LastMockupDraw + 1, Len(overlayDraws))

\* C33: once the callbacks of overlapping runs of renderFallbackCanvas
\* have all run, the canvas shows one copy of the design, that of the
\* latest run at its placement.
C33_LatestPlacementShown ==
    AllCallbacksRun =>
        VisibleDesignDraws =
            SubSeq(ExpectedDraws(Len(fallbackRenders)), 2, 3)

(***************************************************************************)
(* The interaction states, under SpecPointer.                              *)
(***************************************************************************)

\* C34: at most one of isDragging and isResizing is true, whatever the
\* sequence of mousedown, mousemove, mouseup and mouseleave events.
C34_DragResizeExclusive == ~ (isDragging /\ isResizing)

\* C35: a mousemove changes neither the origin nor the size when Idle,
\* leaves the size unchanged while Dragging and leaves the origin unchanged
\* while Resizing.
C35_MoveFrame ==
    [][ lastOp' \in {"drag", "resize"} =>
            /\ Idle =>
                   /\ designPosition' = designPosition
                   /\ designSize' = designSize
            /\ isDragging => designSize' = designSize
            /\ isResizing => designPosition' = designPosition ]_vars

(***************************************************************************)
(* Results across calls, under SpecBatch.                                  *)
(***************************************************************************)

\* C36: a call of generateResults made after earlier calls have returned
\* starts from no results, and returns one result for the Original and one
\* for each of its own designs, named after that design's file.
C36_ResultsDoNotAccumulate ==
    [][ /\ batchPc \in {"returned", "rejected"} /\ batchPc' # batchPc =>
               results' = << >>
        /\ batchPc' = "returned" =>
               /\ Len(results') = Len(designFiles') + 1
               /\ \A j \in 1..Len(designFiles') :
                      results'[j + 1].name.file = designFiles'[j].name ]_vars

\* A call without designs has returned its one result on a renderer whose
\* filter still holds the second design of an earlier call.
C36_Witness ==
    /\ batchPc = "returned"
    /\ designFiles = << >>
    /\ Len(results) = 1
    /\ filterDesign = 2

(***************************************************************************)
(* The processing flag, under SpecApp.                                     *)
(***************************************************************************)

\* C38: a mockup is selected only while isProcessing is false and no
\* pipeline is in flight; isProcessing is true for as long as a pipeline is
\* in flight; and the timeout of a download is never pending during a
\* pipeline.
C38_OnePipelineInFlight ==
    [][ /\ procPc' = "loading" /\ (procPc # "loading" \/ procFile' # procFile)
               => procPc = "idle" /\ ~ isProcessing
        /\ procPc' # "idle" => isProcessing'
        /\ generateTimer' => procPc' = "idle"
        /\ isProcessing /\ ~ isProcessing' /\ procPc # "idle" =>
               procPc' = "idle" ]_vars

\* The pipeline of a mockup that replaces an earlier one is in flight.
C38_Witness ==
    /\ procPc = "depth"
    /\ isProcessing
    /\ mockupRenderer # NoRenderer
    /\ mockupRenderer.mockup # procFile

(***************************************************************************)
(* The end of processing, under SpecProcessing.                            *)
(***************************************************************************)

C39_DestroyedNeverDraws ==
    [][ destroyCalls > 0 =>
            /\ filterDesign' = filterDesign
            /\ \A k \in 1..Len(requests) :
                   requests'[k] = "done" => requests[k] = "done"
            /\ batchPc' = "delay" => batchPc = "delay"
            /\ batchPc' = "original" => batchPc = "original"
            /\ capturedFrame' # capturedFrame => capturedFrame' = NoFrame
            /\ Len(results') > Len(results) /\ batchPc # "original" =>
                   results'[Len(results')].image.kind # "capture" ]_vars

\* An interactive render that waited for its texture on an initialized
\* renderer has resumed after destroy and failed, and a generateResults
\* call made after destroy was rejected.
C39_Witness ==
    /\ destroyCalls > 0
    /\ initPc = "done"
    /\ Len(requests) >= 1
    /\ requests[1] = "failed"
    /\ batchPc = "rejected"

=============================================================================
